---- MODULE Spec2Model ----
(***************************************************************************)
(* Verification model of fmeiraf/deep-leads.                               *)
(*                                                                         *)
(*   - the lead matcher of src/evals/lead_comparison.py                    *)
(*     (normalize_text, leads_match, find_lead_matches);                   *)
(*   - the reporter display_leads_comparison of the same file;             *)
(*   - the Sample Builders, the checkpointed Batch Generator, the          *)
(*     concurrency gate, the groups of parallel builder tasks, the         *)
(*     gathering of the topic maps and the saving and loading of the       *)
(*     checkpoint files of src/evals/generate_synthetic_questions.py;      *)
(*   - the evaluation runner of src/evals/eval_runner.py;                  *)
(*   - build_final_query of src/agents/utils/build_final_query.py.         *)
(*                                                                         *)
(* A Python str is modelled as a sequence of one-character strings, so     *)
(* that lower(), strip() and replace() are computed, not assumed.          *)
(***************************************************************************)
EXTENDS Integers, Sequences, FiniteSets, TLC

VARIABLES
    text1, text2,      \* normalize_text / leads_match: the two names compared
    email1, email2,    \* leads_match: the two (optional) emails compared
    lm_pc,             \* "input" before leads_match is called, "done" after
    lm_result,         \* truth value of what leads_match returned
    actual_leads,      \* find_lead_matches: first argument
    expected_leads,    \* find_lead_matches: second argument
    fm_pc,             \* "input" before find_lead_matches is called, "done" after
    fm_out,            \* what find_lead_matches returned
    fm_given,          \* the two lists as they were when first passed
    fm_again,          \* what a second call on the same lists returned
    summary,           \* the summary display_leads_comparison printed, if any
    b_kind,            \* which Sample Builder is called
    b_target,          \* its arguments: topic id and locality
    query_results,     \* the works the bibliographic source returns to it
    city_search_cache, \* self.city_search_cache
    b_pc,              \* "input" before the builder is called, "done" after
    b_out,             \* what the builder returned or raised
    config,            \* GenerationConfig: batch_size, parallel_batch_size
    source,            \* the bibliographic source: the topic maps gathering
                       \* yields and the combinations no authorship qualifies for
    gathered_data_file,\* checkpoint_dir/gathered_data.json
    progress_file,     \* checkpoint_dir/progress.json
    checkpoint_files,  \* checkpoint_dir/checkpoint_batch_<n>.json, by ordinal n
    final_output,      \* the final aggregated output file
    gen,               \* the process running generate_queries: its position
                       \* and the generator's attributes and locals
    hist,              \* history of the run, for stating the claims
    API_SEMAPHORE,     \* the permits of the concurrency gate that are free
    gate_width,        \* the permits the gate was created with
    calls,             \* the tasks running rate_limited_api_call
    grp,               \* a parallel group of city Sample-Builder tasks under
                       \* asyncio.gather, and self.city_search_cache
    tm,                \* _get_topic_maps: the configuration, the records of
                       \* the main query, the loop position and the three maps
    par,               \* _get_country_based_searches: the loop over the groups
                       \* of parallel_batch_size tasks and the tasks created
    rt,                \* a save followed by a load of one checkpoint file: the
                       \* Python values saved, the JSON written, the values loaded
    run                \* test_correctness_with_visual_comparison: the agent's
                       \* leads, the expected leads, and what the runner returned

textVars == <<text1, text2, email1, email2, lm_pc, lm_result>>
matcherVars == <<actual_leads, expected_leads, fm_pc, fm_out, fm_given,
                 fm_again, summary>>
builderVars == <<b_kind, b_target, query_results, city_search_cache, b_pc, b_out>>
diskVars == <<gathered_data_file, progress_file, checkpoint_files, final_output>>
generatorVars == <<config, source, diskVars, gen, hist>>
gateVars == <<API_SEMAPHORE, gate_width, calls>>
groupVars == <<grp>>
topicMapVars == <<tm>>
parallelVars == <<par>>
roundTripVars == <<rt>>
runnerVars == <<run>>

-----------------------------------------------------------------------------
(* Bounds of the model.                                                    *)

\* longest name drawn for the normalization scenario
MaxTextLen == 5
\* longest name drawn for the leads_match scenario
MaxNameLen == 3
\* longest actual / expected lead list drawn for find_lead_matches
MaxLeads == 3
\* most works the bibliographic source returns to one Sample Builder call
MaxWorks == 2
\* most times a file of the checkpoint directory is deleted or damaged from
\* outside the program
MaxDamage == 1
\* most runs of generate_queries over one checkpoint directory
MaxRuns == 2
\* most tasks that call rate_limited_api_call at the same time
MaxTasks == 3
\* widest concurrency gate drawn for the rate limiting scenario
MaxPermits == 2
\* most Sample-Builder tasks in one parallel group
MaxGroup == 2
\* most records the main query returns to _get_topic_maps
MaxRecords == 3
\* largest target_queries drawn for _get_topic_maps
MaxTarget == 2
\* most combinations _get_country_based_searches flattens
MaxCombinations == 4
\* most Samples in the batch a checkpoint round trip saves
MaxSamples == 2
\* most leads in the agent's output and in the expected results of a run of
\* the evaluation runner
MaxAgentLeads == 2

-----------------------------------------------------------------------------
(* Python strings.                                                         *)

\* Python's None, for Optional[str] fields (no str is this sequence:
\* every element of a str is a single character)
None == <<"None">>

\* the characters names are drawn from: a lower-case letter, its upper-case
\* form and the space
Chars == {"a", "A", " "}

\* str.lower() on one character
LowerChar(c) ==
    CASE c = "A" -> "a"
      [] c = "C" -> "c"
      [] c = "D" -> "d"
      [] c = "M" -> "m"
      [] c = "O" -> "o"
      [] c = "P" -> "p"
      [] c = "R" -> "r"
      [] OTHER -> c

\* str.lower()
Lower(s) == [i \in 1..Len(s) |-> LowerChar(s[i])]

RECURSIVE LStrip(_)
\* str.lstrip() for the space character
LStrip(s) == IF s # <<>> /\ Head(s) = " " THEN LStrip(Tail(s)) ELSE s

RECURSIVE RStrip(_)
\* str.rstrip() for the space character
RStrip(s) ==
    IF s # <<>> /\ s[Len(s)] = " " THEN RStrip(SubSeq(s, 1, Len(s) - 1)) ELSE s

\* str.strip()
Strip(s) == RStrip(LStrip(s))

RECURSIVE ReplaceDoubleSpace(_)
\* str.replace("  ", " "): one left-to-right pass over non-overlapping
\* occurrences; the text produced is not scanned again
ReplaceDoubleSpace(s) ==
    IF Len(s) < 2 THEN s
    ELSE IF s[1] = " " /\ s[2] = " "
         THEN <<" ">> \o ReplaceDoubleSpace(SubSeq(s, 3, Len(s)))
         ELSE <<s[1]>> \o ReplaceDoubleSpace(Tail(s))

\* Python's None where the value, when present, is an object (a dict or a
\* model instance): the value is held as <<object>>
NoObject == <<>>

\* truth value of a str or None in a Python condition
Truthy(s) == s # None /\ s # <<>>

\* all strings over Chars of length at most n
StrUpTo(n) == UNION {[1..k -> Chars] : k \in 0..n}

-----------------------------------------------------------------------------
(* lead_comparison.py                                                      *)

\* normalize_text: "" for a falsy text, else lower().strip().replace("  ", " ")
normalize_text(text) ==
    IF ~Truthy(text) THEN <<>>
    ELSE ReplaceDoubleSpace(Strip(Lower(text)))

\* Lead, reduced to the two fields the matcher reads
Lead(n, e) == [name |-> n, email |-> e]

\* leads_match with the two rules joined by `and` instead of `or`
leads_match_both_fields(lead1, lead2) ==
    LET n1 == normalize_text(lead1.name)
        n2 == normalize_text(lead2.name)
        e1 == normalize_text(lead1.email)
        e2 == normalize_text(lead2.email)
    IN  /\ Truthy(n1) /\ Truthy(n2) /\ n1 = n2
        /\ Truthy(e1) /\ Truthy(e2) /\ e1 = e2

\* leads_match, as the truth value of the value it returns
\* (name_match or email_match; each is an `and` chain over two str and a bool)
leads_match(lead1, lead2) ==
    LET lead1_name == IF Truthy(lead1.name) THEN normalize_text(lead1.name) ELSE <<>>
        lead1_email == IF Truthy(lead1.email) THEN normalize_text(lead1.email) ELSE <<>>
        lead2_name == IF Truthy(lead2.name) THEN normalize_text(lead2.name) ELSE <<>>
        lead2_email == IF Truthy(lead2.email) THEN normalize_text(lead2.email) ELSE <<>>
        name_match == Truthy(lead1_name) /\ Truthy(lead2_name) /\ lead1_name = lead2_name
        email_match == Truthy(lead1_email) /\ Truthy(lead2_email)
                          /\ lead1_email = lead2_email
    IN  name_match \/ email_match

RECURSIVE ScanActualNoSkip(_, _, _, _)
\* the inner loop without the `if i in matched_actual_indices: continue` test
ScanActualNoSkip(actual, expected_lead, matched_actual_indices, i) ==
    IF i > Len(actual) THEN 0
    ELSE IF leads_match(actual[i], expected_lead) THEN i
    ELSE ScanActualNoSkip(actual, expected_lead, matched_actual_indices, i + 1)

RECURSIVE ScanActualLast(_, _, _, _)
\* the inner loop without its `break`: the last unmatched matching index wins
ScanActualLast(actual, expected_lead, matched_actual_indices, i) ==
    IF i > Len(actual) THEN 0
    ELSE LET later == ScanActualLast(actual, expected_lead,
                                     matched_actual_indices, i + 1)
         IN  IF later # 0 THEN later
             ELSE IF i \notin matched_actual_indices
                     /\ leads_match(actual[i], expected_lead) THEN i
             ELSE 0

RECURSIVE ScanActualFirstOnly(_, _, _, _)
\* the inner loop giving up after the first actual lead that is not matched
ScanActualFirstOnly(actual, expected_lead, matched_actual_indices, i) ==
    IF i > Len(actual) THEN 0
    ELSE IF i \in matched_actual_indices
         THEN ScanActualFirstOnly(actual, expected_lead,
                                  matched_actual_indices, i + 1)
    ELSE IF leads_match(actual[i], expected_lead) THEN i
    ELSE 0

RECURSIVE ScanActual(_, _, _, _)
\* the inner loop of find_lead_matches from index i on: the first index of
\* actual_leads that is not in matched_actual_indices and matches the
\* expected lead, or 0 when the loop ends without a break
ScanActual(actual, expected_lead, matched_actual_indices, i) ==
    IF i > Len(actual) THEN 0
    ELSE IF i \in matched_actual_indices
         THEN ScanActual(actual, expected_lead, matched_actual_indices, i + 1)
    ELSE IF leads_match(actual[i], expected_lead) THEN i
    ELSE ScanActual(actual, expected_lead, matched_actual_indices, i + 1)

\* the state of find_lead_matches before its first loop; pairs / missing_at
\* record the list positions the returned leads came from
EmptyMatchState ==
    [matches |-> <<>>, missing |-> <<>>, matched_actual_indices |-> {},
     pairs |-> <<>>, missing_at |-> <<>>]

RECURSIVE MatchLoopNoMissing(_, _, _, _)
\* the outer loop without its `if not found_match: missing.append(...)`
MatchLoopNoMissing(actual, expected, j, st) ==
    IF j > Len(expected) THEN st
    ELSE LET i == ScanActual(actual, expected[j], st.matched_actual_indices, 1)
         IN  IF i # 0
             THEN MatchLoopNoMissing(actual, expected, j + 1,
                     [st EXCEPT !.matches = Append(@, <<actual[i], expected[j]>>),
                                !.matched_actual_indices = @ \cup {i},
                                !.pairs = Append(@, <<i, j>>)])
             ELSE MatchLoopNoMissing(actual, expected, j + 1, st)

RECURSIVE MatchLoop(_, _, _, _)
\* the outer loop of find_lead_matches from expected index j on
MatchLoop(actual, expected, j, st) ==
    IF j > Len(expected) THEN st
    ELSE LET i == ScanActual(actual, expected[j], st.matched_actual_indices, 1)
         IN  IF i # 0
             THEN MatchLoop(actual, expected, j + 1,
                     [st EXCEPT !.matches = Append(@, <<actual[i], expected[j]>>),
                                !.matched_actual_indices = @ \cup {i},
                                !.pairs = Append(@, <<i, j>>)])
             ELSE MatchLoop(actual, expected, j + 1,
                     [st EXCEPT !.missing = Append(@, expected[j]),
                                !.missing_at = Append(@, j)])

RECURSIVE ExtraLoopAll(_, _, _)
\* the second loop without the `if i not in matched_actual_indices` test
ExtraLoopAll(actual, matched_actual_indices, i) ==
    IF i > Len(actual) THEN <<>>
    ELSE <<i>> \o ExtraLoopAll(actual, matched_actual_indices, i + 1)

RECURSIVE ExtraLoop(_, _, _)
\* the second loop of find_lead_matches: positions of the actual leads
\* that were not matched, in list order
ExtraLoop(actual, matched_actual_indices, i) ==
    IF i > Len(actual) THEN <<>>
    ELSE IF i \notin matched_actual_indices
         THEN <<i>> \o ExtraLoop(actual, matched_actual_indices, i + 1)
         ELSE ExtraLoop(actual, matched_actual_indices, i + 1)

\* find_lead_matches: (matches, missing, extra), with the positions
find_lead_matches(actual, expected) ==
    LET st == MatchLoop(actual, expected, 1, EmptyMatchState)
        extra_at == ExtraLoop(actual, st.matched_actual_indices, 1)
    IN  [matches |-> st.matches,
         missing |-> st.missing,
         extra |-> [k \in 1..Len(extra_at) |-> actual[extra_at[k]]],
         pairs |-> st.pairs,
         missing_at |-> st.missing_at,
         extra_at |-> extra_at]

\* a find_lead_matches that removes the leads it matched from actual_leads
ListsAfterCallConsuming(actual, expected, out) == <<out.extra, expected>>

\* the caller's two lists when find_lead_matches returns: the function
\* iterates them and reads name and email; no statement assigns to, appends
\* to or removes from a list, or sets a field of a Lead
ListsAfterCall(actual, expected, out) == <<actual, expected>>

\* a reporter that computes recall whatever total_expected is
ShowsRecallAlways(total_expected) == TRUE

\* `if total_expected > 0:` guarding the recall line
ShowsRecall(total_expected) == total_expected > 0

\* f"{recall:.1f}" for recall = (total_matches / total_expected) * 100, in
\* tenths of a percent (rounded to the nearest tenth; with the list lengths
\* of this model no value lies half way between two tenths), or the
\* ZeroDivisionError of the division
Recall(total_matches, total_expected) ==
    IF total_expected = 0
    THEN [error |-> "ZeroDivisionError", tenths |-> 0]
    ELSE [error |-> "none",
          tenths |-> (2000 * total_matches + total_expected)
                        \div (2 * total_expected)]

\* display_leads_comparison: the counts of its summary panel, the recall
\* line when there is one, and the value it returns
display_leads_comparison(actual, expected) ==
    LET out == find_lead_matches(actual, expected)
        total_expected == Len(expected)
        total_actual == Len(actual)
        total_matches == Len(out.matches)
        total_missing == Len(out.missing)
        total_extra == Len(out.extra)
        counts == [error |-> "none",
                   total_expected |-> total_expected,
                   total_actual |-> total_actual,
                   total_matches |-> total_matches,
                   total_missing |-> total_missing,
                   total_extra |-> total_extra,
                   recall |-> NoObject,
                   returned |-> "None"]
    IN  IF ShowsRecall(total_expected)
        THEN LET recall == Recall(total_matches, total_expected)
             IN  IF recall.error # "none"
                 THEN [counts EXCEPT !.error = recall.error,
                                     !.returned = "raised"]
                 ELSE [counts EXCEPT !.recall = <<recall.tenths>>]
        ELSE counts

-----------------------------------------------------------------------------
(* generate_synthetic_questions.py: the Sample Builders.                   *)
(*                                                                         *)
(* Text built by the builders is a sequence of tokens ("" is <<>>), so an  *)
(* f-string is a concatenation and `not text` is a test for <<>>.          *)

\* COUNTRIES: country code -> country name
COUNTRIES == [c \in {"US", "CA"} |-> IF c = "US" THEN <<"United States">>
                                               ELSE <<"Canada">>]

\* the fixed placeholder title of every builder
BuilderTitle == <<"Professor | Researcher | Scientist">>

\* the three builders
BuilderKinds == {"institution", "city", "country"}

\* the nested loops `for record / for authorship / for inst` as the sequence
\* of (record, authorship, inst) triples they visit, in order; the loops
\* hold no break, and every continue is in the innermost loop
RECURSIVE InstVisits(_, _, _)
InstVisits(record, authorship, k) ==
    IF k > Len(authorship.institutions) THEN <<>>
    ELSE <<[record |-> record, authorship |-> authorship,
            inst |-> authorship.institutions[k]]>>
         \o InstVisits(record, authorship, k + 1)

RECURSIVE AuthorshipVisits(_, _)
AuthorshipVisits(record, k) ==
    IF k > Len(record.authorships) THEN <<>>
    ELSE InstVisits(record, record.authorships[k], 1)
         \o AuthorshipVisits(record, k + 1)

RECURSIVE Visits(_)
Visits(works) ==
    IF works = <<>> THEN <<>>
    ELSE AuthorshipVisits(Head(works), 1) \o Visits(Tail(works))

\* the locals of a builder before its loop
BuilderLocals(cache) ==
    [leads |-> <<>>, topic_name |-> <<>>, institution_name |-> <<>>,
     openalex_results |-> NoObject, selected_authors |-> {},
     institution_country |-> <<>>,
     city_search_cache |-> cache, lookups |-> <<>>, hits |-> <<>>,
     error |-> "none"]

\* topic_name: display_name, suffixed with the subfield in parentheses if any
TopicName(topic) ==
    IF ~Truthy(topic.subfield) THEN topic.display_name
    ELSE topic.display_name \o <<" (">> \o topic.subfield \o <<")">>

\* institution_name of the institution builder: display_name, annotated with
\* the alternative names if any
InstitutionNameWithAlternatives(inst) ==
    IF inst.display_name_alternatives = <<>> THEN inst.display_name
    ELSE inst.display_name \o <<" (also known as ">>
         \o inst.display_name_alternatives \o <<")">>

\* Lead(name, title, headline, institution, source_url) as the builders
\* construct it; the headline and institution are the institution's
\* display_name in all three builders
SampleLead(researcher_name, institution, researcher_id) ==
    [name |-> researcher_name, title |-> BuilderTitle,
     headline |-> <<"Researcher in ">> \o institution,
     institution |-> institution,
     source_url |-> researcher_id]

\* a builder that never finds a researcher in selected_authors
AlreadySelectedNever(target_researcher_id, selected_authors) == FALSE

\* `if target_researcher_id in selected_authors: continue`
AlreadySelected(target_researcher_id, selected_authors) ==
    target_researcher_id \in selected_authors

\* the body of the innermost loop once the institution passed the locality
\* test: read the topic, set topic_name / institution_name, skip a researcher
\* already selected, else append the lead and replace openalex_results
AcceptVisit(kind, target, v, st) ==
    IF v.record.primary_topic = NoObject
    THEN [st EXCEPT !.error = "AttributeError"]
    ELSE
    LET topic == v.record.primary_topic[1]
        topic_name == TopicName(topic)
        institution_name == IF kind = "institution"
                            THEN InstitutionNameWithAlternatives(v.inst)
                            ELSE v.inst.display_name
        st1 == [st EXCEPT !.topic_name = topic_name,
                          !.institution_name = institution_name,
                          !.institution_country =
                              IF kind = "institution" THEN v.inst.country_code ELSE @]
        target_researcher_id == v.authorship.author.id
    IN  IF AlreadySelected(target_researcher_id, st.selected_authors) THEN st1
        ELSE [st1 EXCEPT
                !.selected_authors = @ \cup {target_researcher_id},
                !.leads = Append(@,
                    SampleLead(v.authorship.author.display_name,
                               IF kind = "institution" THEN v.inst.display_name
                               ELSE institution_name,
                               target_researcher_id)),
                !.openalex_results = <<
                    [topic_id |-> target.topic_id,
                     topic_display_name |-> topic_name,
                     topic_subfield |-> topic.subfield,
                     institution_id |-> IF kind = "institution"
                                        THEN target.institution_id ELSE v.inst.id,
                     institution_country |-> IF kind = "institution"
                                             THEN v.inst.country_code
                                             ELSE target.country_code,
                     city |-> IF kind = "city" THEN target.city ELSE None,
                     target_researcher_id |-> target_researcher_id,
                     target_researcher_name |-> v.authorship.author.display_name,
                     work_id |-> v.record.id] >>]

\* institution ids for which pyalex.Institutions()[code] raises (the source
\* does not serve the record)
UnreachableInstitutions == {"I9"}

\* a city builder that takes every institution of the country
CityDiffersNever(city_search, city) == FALSE

\* `if city_search != city: continue`
CityDiffers(city_search, city) == city_search # city

\* a builder that finds no institution in the cache
CacheHitNever(id, cache) == FALSE

\* `if inst.get("id") in self.city_search_cache`
CacheHit(id, cache) == id \in DOMAIN cache

\* one pass of the innermost loop of a builder
VisitStep(kind, target, v, st) ==
    CASE kind = "institution" ->
            IF v.inst.id = target.institution_id
            THEN AcceptVisit(kind, target, v, st) ELSE st
      [] kind = "country" ->
            IF v.inst.country_code = target.country_code
            THEN AcceptVisit(kind, target, v, st) ELSE st
      [] kind = "city" ->
            IF v.inst.country_code # target.country_code THEN st
            ELSE LET hit == CacheHit(v.inst.id, st.city_search_cache)
                     \* pyalex.Institutions()[code].get("geo", {}).get("city")
                     city_search == IF hit THEN st.city_search_cache[v.inst.id]
                                    ELSE v.inst.geo_city
                     st1 == IF hit THEN [st EXCEPT !.hits = Append(@, v.inst.id)]
                            ELSE [st EXCEPT
                                    !.city_search_cache =
                                        (v.inst.id :> city_search) @@ @,
                                    !.lookups = Append(@, v.inst.id)]
                 IN  IF ~hit /\ v.inst.id \in UnreachableInstitutions
                     THEN [st EXCEPT !.lookups = Append(@, v.inst.id),
                                     !.error = "HTTPError"]
                     ELSE IF CityDiffers(city_search, target.city) THEN st1
                     ELSE AcceptVisit(kind, target, v, st1)

RECURSIVE BuilderLoop(_, _, _, _)
\* the loop of a builder over the visits; an exception ends it
BuilderLoop(kind, target, visits, st) ==
    IF visits = <<>> \/ st.error # "none" THEN st
    ELSE BuilderLoop(kind, target, Tail(visits),
                     VisitStep(kind, target, Head(visits), st))

\* the validation that never raises
MissingRequiredDataNever(st) == FALSE

\* `if not openalex_results or not topic_name or not leads`
MissingRequiredData(st) ==
    st.openalex_results = NoObject \/ ~Truthy(st.topic_name) \/ st.leads = <<>>

\* ResearchParams(who_query, what_query, where_query) of each builder
BuilderResearchParams(kind, target, st) ==
    [who_query |-> BuilderTitle,
     what_query |-> st.topic_name,
     where_query |->
        CASE kind = "city" -> target.city \o <<", ">> \o COUNTRIES[target.country_code]
          [] kind = "country" -> COUNTRIES[target.country_code]
          [] kind = "institution" -> COUNTRIES[st.institution_country],
     context_query |-> None]

\* the labels of the two 'where' lines
WhereLabelInstitution ==
    <<"Where are they located geographically (institution name, geographic location): ">>
WhereLabel ==
    <<"Where are they located geographically (geographic location): ">>

\* build_final_query rendering the location-only template whatever
\* is_institution is
build_final_query_plain(params, is_institution, institution_name) ==
    [who |-> <<"Who: ">> \o params.who_query,
     what |-> <<"What is the field of study: ">> \o params.what_query,
     where |-> WhereLabel \o params.where_query,
     context |-> <<"Additional context (ignore if None): ">>
                    \o params.context_query]

\* build_final_query: the four lines of the rendered template that carry a
\* parameter (each f-string field is the str() of the value: None gives
\* "None")
build_final_query(params, is_institution, institution_name) ==
    [who |-> <<"Who: ">> \o params.who_query,
     what |-> <<"What is the field of study: ">> \o params.what_query,
     where |-> IF is_institution
               THEN WhereLabelInstitution \o institution_name \o <<", ">>
                        \o params.where_query
               ELSE WhereLabel \o params.where_query,
     context |-> <<"Additional context (ignore if None): ">>
                    \o params.context_query]

\* a builder from its query results to what it returns or raises:
\* the loop, the validation, the parameters, the query string and the Sample
ProcessSearches(kind, target, works, cache) ==
    LET st == BuilderLoop(kind, target, Visits(works), BuilderLocals(cache))
    IN  IF st.error # "none"
        THEN [kind |-> "raise", error |-> st.error,
              city_search_cache |-> st.city_search_cache, lookups |-> st.lookups,
              hits |-> st.hits]
        ELSE IF MissingRequiredData(st)
        THEN [kind |-> "raise", error |-> "ValueError",
              city_search_cache |-> st.city_search_cache, lookups |-> st.lookups,
              hits |-> st.hits]
        ELSE IF kind = "institution" /\ st.institution_country \notin DOMAIN COUNTRIES
        THEN [kind |-> "raise", error |-> "KeyError",
              city_search_cache |-> st.city_search_cache, lookups |-> st.lookups,
              hits |-> st.hits]
        ELSE LET research_params == BuilderResearchParams(kind, target, st)
             IN  [kind |-> "sample",
                  sample |->
                    [query_params |-> research_params,
                     query_string |->
                        IF kind = "institution"
                        THEN build_final_query(research_params, TRUE,
                                               st.institution_name)
                        ELSE build_final_query(research_params, FALSE, None),
                     query_type |-> "institution_focused",
                     expected_results |-> [leads |-> st.leads],
                     openalex_results |-> st.openalex_results],
                  city_search_cache |-> st.city_search_cache,
                  lookups |-> st.lookups, hits |-> st.hits]

\* _process_institution_based_searches(topic_id, institution_id)
process_institution_based_searches(target, works, cache) ==
    ProcessSearches("institution", target, works, cache)

\* _process_city_based_searches(topic_id, country_code, city)
process_city_based_searches(target, works, cache) ==
    ProcessSearches("city", target, works, cache)

\* _process_country_based_searches(topic_id, country_code)
process_country_based_searches(target, works, cache) ==
    ProcessSearches("country", target, works, cache)

-----------------------------------------------------------------------------
(* generate_synthetic_questions.py: checkpoint files and generate_queries. *)
(*                                                                         *)
(* A Sample is identified by the combination it was built for; a topic map *)
(* is the sequence of its (key, topic set) items in dict order.            *)

\* a file that does not exist
MissingFile == [status |-> "missing", content |-> <<>>]
\* a file that is not valid JSON (a write cut short, or damage)
MalformedFile == [status |-> "malformed", content |-> <<>>]
\* a file holding what json.dump wrote
JsonFile(content) == [status |-> "ok", content |-> <<content>>]

\* Path.exists()
Exists(file) == file.status # "missing"

\* all orders in which a set can be iterated
Orders(S) ==
    {q \in [1..Cardinality(S) -> S] : \A a, b \in 1..Cardinality(S) :
                                            q[a] = q[b] => a = b}

RECURSIVE FlattenOrders(_, _)
\* the all_combinations lists `for key in map.keys(): for topic in map[key]`
\* can build: keys in dict order, each topic set in any iteration order
FlattenOrders(kind, topic_map) ==
    IF topic_map = <<>> THEN {<<>>}
    ELSE {[k \in 1..Len(o) |-> <<kind, Head(topic_map)[1], o[k]>>] \o rest :
            o \in Orders(Head(topic_map)[2]),
            rest \in FlattenOrders(kind, Tail(topic_map))}

\* the combinations of a topic map
Combinations(kind, topic_map) ==
    UNION {{<<kind, topic_map[k][1], t>> : t \in topic_map[k][2]} :
            k \in 1..Len(topic_map)}

\* load_progress raising on a file it cannot parse
load_progress_raises(file) ==
    IF ~Exists(file)
    THEN [error |-> "none", logged |-> FALSE,
          completed_batches |-> <<>>, total_results |-> 0]
    ELSE IF file.status = "malformed"
    THEN [error |-> "JSONDecodeError", logged |-> FALSE,
          completed_batches |-> <<>>, total_results |-> 0]
    ELSE [error |-> "none", logged |-> FALSE,
          completed_batches |-> file.content[1].completed_batches,
          total_results |-> file.content[1].total_results]

\* load_progress: the empty state for a missing file and, with
\* logger.error, for a file whose json.load raises; else the record read
load_progress(file) ==
    IF ~Exists(file)
    THEN [error |-> "none", logged |-> FALSE,
          completed_batches |-> <<>>, total_results |-> 0]
    ELSE IF file.status = "malformed"
    THEN [error |-> "none", logged |-> TRUE,
          completed_batches |-> <<>>, total_results |-> 0]
    ELSE [error |-> "none", logged |-> FALSE,
          completed_batches |-> file.content[1].completed_batches,
          total_results |-> file.content[1].total_results]

\* the file of ordinal batch_num in the checkpoint directory
CheckpointFile(files, batch_num) ==
    IF batch_num \in DOMAIN files THEN files[batch_num] ELSE MissingFile

\* load_checkpoint raising when the file does not exist
load_checkpoint_raises(files, batch_num) ==
    LET file == CheckpointFile(files, batch_num)
    IN  IF ~Exists(file)
        THEN [error |-> "FileNotFoundError", logged |-> FALSE, results |-> <<>>]
        ELSE IF file.status = "malformed"
        THEN [error |-> "none", logged |-> TRUE, results |-> <<>>]
        ELSE [error |-> "none", logged |-> FALSE,
              results |-> file.content[1].results]

\* load_checkpoint: [] for a missing file and, with logger.error, for a file
\* that fails to load; else the samples read
load_checkpoint(files, batch_num) ==
    LET file == CheckpointFile(files, batch_num)
    IN  IF ~Exists(file)
        THEN [error |-> "none", logged |-> FALSE, results |-> <<>>]
        ELSE IF file.status = "malformed"
        THEN [error |-> "none", logged |-> TRUE, results |-> <<>>]
        ELSE [error |-> "none", logged |-> FALSE,
              results |-> file.content[1].results]

RECURSIVE LoadCheckpoints(_, _)
\* `for batch_num in completed_batches: all_results.extend(load_checkpoint(..))`
LoadCheckpoints(files, completed_batches) ==
    IF completed_batches = <<>>
    THEN [error |-> "none", logged |-> FALSE, results |-> <<>>]
    ELSE LET one == load_checkpoint(files, Head(completed_batches))
             rest == LoadCheckpoints(files, Tail(completed_batches))
         IN  IF one.error # "none" THEN one
             ELSE [error |-> rest.error,
                   logged |-> one.logged \/ rest.logged,
                   results |-> one.results \o rest.results]

\* the topic maps before anything was gathered or loaded
NoMaps ==
    [topics_per_institution |-> <<>>, topics_per_city |-> <<>>,
     topics_per_country |-> <<>>]

\* the process when generate_queries is not running
Stopped ==
    [pc |-> "stopped", error |-> "none", path |-> "none",
     maps |-> NoMaps,
     all_combinations |-> [k \in BuilderKinds |-> <<>>],
     build_order |-> <<>>, batch_start |-> 0,
     institution_based_searches |-> <<>>, city_based_searches |-> <<>>,
     country_based_searches |-> <<>>,
     completed_batches |-> <<>>, all_results |-> <<>>,
     remaining_searches |-> <<>>, total_batches |-> 0, batch_idx |-> 0,
     batch_num |-> 0, returned |-> <<>>]

\* the map a kind of search is flattened from
MapOf(maps, kind) ==
    CASE kind = "institution" -> maps.topics_per_institution
      [] kind = "city" -> maps.topics_per_city
      [] kind = "country" -> maps.topics_per_country

\* the three all_combinations lists a run can flatten from the maps
AllCombinationOrders(maps) ==
    {[k \in BuilderKinds |-> IF k = "institution" THEN i
                              ELSE IF k = "city" THEN c ELSE n] :
        i \in FlattenOrders("institution", maps.topics_per_institution),
        c \in FlattenOrders("city", maps.topics_per_city),
        n \in FlattenOrders("country", maps.topics_per_country)}

\* the search list of a kind
SearchList(g, kind) ==
    CASE kind = "institution" -> g.institution_based_searches
      [] kind = "city" -> g.city_based_searches
      [] kind = "country" -> g.country_based_searches

\* the generator with `extra` appended to the search list of a kind
ExtendSearchList(g, kind, extra) ==
    CASE kind = "institution" ->
            [g EXCEPT !.institution_based_searches = @ \o extra]
      [] kind = "city" -> [g EXCEPT !.city_based_searches = @ \o extra]
      [] kind = "country" -> [g EXCEPT !.country_based_searches = @ \o extra]

\* Python's min
Min(a, b) == IF a <= b THEN a ELSE b

\* Python's seq[a:b] with 0 <= a
Slice(q, a, b) == SubSeq(q, a + 1, Min(b, Len(q)))

\* batch_results = await asyncio.gather(*tasks): the Samples of the group in
\* submission order, or the exception of a task that raised
Gather(group, failing) ==
    IF \E k \in 1..Len(group) : group[k] \in failing
    THEN [error |-> "ValueError", results |-> <<>>]
    ELSE [error |-> "none", results |-> group]

\* batch_num = len(completed_batches) + batch_idx, with completed_batches
\* the list the loop appends to
BatchNum(completed_batches, batch_idx) == Len(completed_batches) + batch_idx

\* the directory and the process before the first run
NoHistory ==
    [damage |-> 0, runs |-> 0, start_progress |-> MissingFile, start_checkpoints |-> <<>>,
     loaded_completed |-> <<>>, loaded |-> <<>>, logged |-> FALSE,
     api_calls |-> {}, gathers |-> 0, raised |-> {}, dropped |-> {}]

GeneratorIdle ==
    /\ config = [batch_size |-> 1, parallel_batch_size |-> 1]
    /\ source = [maps |-> NoMaps, failing |-> {}]
    /\ gathered_data_file = MissingFile /\ progress_file = MissingFile
    /\ checkpoint_files = <<>> /\ final_output = MissingFile
    /\ gen = Stopped /\ hist = NoHistory

-----------------------------------------------------------------------------
(* The concurrency gate: API_SEMAPHORE and rate_limited_api_call.          *)

\* API_SEMAPHORE = asyncio.Semaphore(10)
API_SEMAPHORE_WIDTH == 10

\* what api_call_func() can do: return a value or raise an exception
ApiOutcomes ==
    {[kind |-> "value", v |-> "works"], [kind |-> "value", v |-> "no works"],
     [kind |-> "error", v |-> "HTTPError"], [kind |-> "error", v |-> "Timeout"]}

\* a task that has not entered rate_limited_api_call
NotCalled ==
    [pc |-> "start", api |-> [kind |-> "none", v |-> "none"], slept |-> FALSE,
     out |-> [kind |-> "none", v |-> "none"]]

\* rate_limited_api_call turning the exception of api_call_func into a value
CallOutcomeSwallowed(api) ==
    IF api.kind = "error" THEN [kind |-> "return", v |-> "None"]
    ELSE [kind |-> "return", v |-> api.v]

\* how rate_limited_api_call ends: `return result`, or `raise e` with the
\* exception api_call_func raised
CallOutcome(api) ==
    IF api.kind = "error" THEN [kind |-> "raise", v |-> api.v]
    ELSE [kind |-> "return", v |-> api.v]

\* the gate in a process where no task is in rate_limited_api_call
GateIdle ==
    /\ gate_width = API_SEMAPHORE_WIDTH
    /\ API_SEMAPHORE = gate_width
    /\ calls = <<>>

\* a call to the bibliographic source (pyalex), with whether a permit of the
\* gate is taken while it is made
ExternalCall(api) == [api |-> api, permit |-> API_SEMAPHORE < gate_width]

-----------------------------------------------------------------------------
(* A parallel group of Sample-Builder tasks:                               *)
(*     tasks = [...]; batch_results = await asyncio.gather of the tasks;   *)
(*     self.city_based_searches.extend(batch_results)                      *)
(* A _process_*_searches coroutine holds no await, so once the event loop  *)
(* starts a task it runs to its return or raise, and the loop starts the   *)
(* tasks in the order asyncio.gather created them.                         *)

\* the group before anything is submitted
NoGroup ==
    [pc |-> "idle", tasks |-> <<>>, ready |-> <<>>, completed |-> <<>>,
     city_search_cache |-> <<>>, cache_at_start |-> <<>>,
     batch_results |-> <<>>, error |-> "none", city_based_searches |-> <<>>]

\* the task asyncio.gather creates for a combination, not yet run
NewTask(target, works) ==
    [target |-> target, query_results |-> works, out |-> [kind |-> "none"]]

\* asyncio.gather returning the results last argument first
GatherResultsReversed(tasks) ==
    [k \in 1..Len(tasks) |-> tasks[Len(tasks) + 1 - k].out.sample]

\* batch_results of asyncio.gather: the results in the order of its
\* arguments
GatherResults(tasks) == [k \in 1..Len(tasks) |-> tasks[k].out.sample]

\* the exception `await asyncio.gather(*tasks)` raises: that of the first
\* task to raise, "none" when every task returned
FirstRaised(tasks, completed) ==
    LET raising == {k \in 1..Len(completed) :
                        tasks[completed[k]].out.kind = "raise"}
    IN  IF raising = {} THEN "none"
        ELSE LET first == CHOOSE k \in raising : \A k2 \in raising : k <= k2
             IN  tasks[completed[first]].out.error

GroupIdle == grp = NoGroup

-----------------------------------------------------------------------------
(* _get_topic_maps: gathering the combination inventory.                   *)

\* the gathering before the generator is constructed
NoTopicMaps ==
    [pc |-> "idle", target_queries |-> 0,
     ratios |-> [country |-> 0, city |-> 0, institution |-> 0],
     targets |-> [country |-> 0, city |-> 0, institution |-> 0],
     records |-> <<>>, pos |-> 0, k |-> 0,
     topics_per_country |-> <<>>, topics_per_city |-> <<>>,
     topics_per_institution |-> <<>>]

TopicMapsIdle == tm = NoTopicMaps

-----------------------------------------------------------------------------
(* _get_country_based_searches: groups of parallel builder tasks.          *)

\* the loop before _get_country_based_searches is called
NoParallel ==
    [pc |-> "idle", all_combinations |-> <<>>, failing |-> {}, batch_size |-> 1,
     batch_start |-> 0, tasks |-> <<>>, batch_results |-> <<>>,
     country_based_searches |-> <<>>, error |-> "none"]

ParallelIdle == par = NoParallel

-----------------------------------------------------------------------------
(* Checkpoint persistence: what is saved, what is written, what is loaded. *)

\* no save is under way
NoRoundTrip ==
    [pc |-> "idle", kind |-> "none", saved |-> <<>>, file |-> <<>>,
     loaded |-> <<>>]

RoundTripIdle == rt = NoRoundTrip

-----------------------------------------------------------------------------
(* eval_runner.py: test_correctness_with_visual_comparison.                *)

\* the runner before it is called
NoRunner ==
    [pc |-> "idle", leads |-> <<>>, expected |-> <<>>, displayed |-> <<>>,
     returned |-> <<>>, error |-> "none"]

RunnerIdle == run = NoRunner

-----------------------------------------------------------------------------
(* Inputs of the matcher scenarios.                                        *)

\* emails drawn for leads_match: absent, empty, and three addresses of which
\* two differ only in case and trailing space
EmailPool == {None, <<>>, <<"a">>, <<"A", " ">>, <<"b">>}

CarlaName == <<"C","a","r","l","a"," ","P","r","a","d","o">>
CarlaEmail == <<"c","p","@","u">>
DianaName == <<"D","i","a","n","a"," ","M","a","g","e","r">>
DianaEmail == <<"d","m","@","u">>

Carla == Lead(CarlaName, CarlaEmail)
Diana == Lead(DianaName, DianaEmail)
\* Carla's name in another case and spacing with Diana's email in upper case:
\* matches Carla by name and Diana by email, while Carla and Diana do not match
CarlaAlt == Lead(<<" ","c","a","r","l","a"," "," ","P","R","A","D","O">>,
                 <<"D","M","@","u"," ">>)
\* a lead whose name normalizes to the empty string: matches nothing
Blank == Lead(<<" ">>, None)

LeadPool == {Carla, Diana, CarlaAlt, Blank}

\* all lists over S of length at most n
SeqUpTo(S, n) == UNION {[1..k -> S] : k \in 0..n}

-----------------------------------------------------------------------------
(* Scenario: leads_match on two leads.                                     *)

TextIdle ==
    /\ text1 = <<>> /\ text2 = <<>> /\ email1 = None /\ email2 = None
    /\ lm_pc = "idle" /\ lm_result = FALSE

MatcherIdle ==
    /\ actual_leads = <<>> /\ expected_leads = <<>>
    /\ fm_pc = "idle" /\ fm_out = find_lead_matches(<<>>, <<>>)
    /\ fm_given = <<actual_leads, expected_leads>>
    /\ fm_again = fm_out
    /\ summary = NoObject

BuilderIdle ==
    /\ b_kind = "none" /\ b_target = None /\ query_results = <<>>
    /\ city_search_cache = <<>> /\ b_pc = "idle" /\ b_out = [kind |-> "none"]

\* a caller evaluates leads_match(Lead(text1, email1), Lead(text2, email2))
CallLeadsMatch ==
    /\ lm_pc = "input"
    /\ lm_result' = leads_match(Lead(text1, email1), Lead(text2, email2))
    /\ lm_pc' = "done"
    /\ UNCHANGED <<text1, text2, email1, email2>>
    /\ UNCHANGED <<matcherVars, builderVars, generatorVars, gateVars, groupVars, topicMapVars, parallelVars, roundTripVars, runnerVars>>

\* two names that may differ in case and spacing, no emails
InitText ==
    /\ text1 \in StrUpTo(MaxTextLen) /\ text2 \in StrUpTo(MaxTextLen)
    /\ email1 = None /\ email2 = None
    /\ lm_pc = "input" /\ lm_result = FALSE
    /\ MatcherIdle /\ BuilderIdle /\ GeneratorIdle /\ GateIdle
    /\ GroupIdle /\ TopicMapsIdle /\ ParallelIdle /\ RoundTripIdle /\ RunnerIdle

\* two leads with names and optional emails
InitLeads ==
    /\ text1 \in StrUpTo(MaxNameLen) /\ text2 \in StrUpTo(MaxNameLen)
    /\ email1 \in EmailPool /\ email2 \in EmailPool
    /\ lm_pc = "input" /\ lm_result = FALSE
    /\ MatcherIdle /\ BuilderIdle /\ GeneratorIdle /\ GateIdle
    /\ GroupIdle /\ TopicMapsIdle /\ ParallelIdle /\ RoundTripIdle /\ RunnerIdle

-----------------------------------------------------------------------------
(* Scenario: find_lead_matches on two lead lists.                          *)

\* a caller evaluates find_lead_matches(actual_leads, expected_leads)
CallFindLeadMatches ==
    /\ fm_pc = "input"
    /\ LET out == find_lead_matches(actual_leads, expected_leads)
           after == ListsAfterCall(actual_leads, expected_leads, out)
       IN  /\ fm_out' = out
           /\ actual_leads' = after[1]
           /\ expected_leads' = after[2]
    /\ fm_pc' = "done"
    /\ UNCHANGED <<fm_given, fm_again, summary>>
    /\ UNCHANGED <<textVars, builderVars, generatorVars, gateVars, groupVars, topicMapVars, parallelVars, roundTripVars, runnerVars>>

\* find_lead_matches is called a second time on the lists the first call left
CallFindLeadMatchesAgain ==
    /\ fm_pc = "done"
    /\ LET out == find_lead_matches(actual_leads, expected_leads)
           after == ListsAfterCall(actual_leads, expected_leads, out)
       IN  /\ fm_again' = out
           /\ actual_leads' = after[1]
           /\ expected_leads' = after[2]
    /\ fm_pc' = "again"
    /\ UNCHANGED <<fm_out, fm_given, summary>>
    /\ UNCHANGED <<textVars, builderVars, generatorVars, gateVars, groupVars, topicMapVars, parallelVars, roundTripVars, runnerVars>>

\* display_leads_comparison is called on the two lists
DisplayLeadsComparison ==
    /\ fm_pc = "input"
    /\ summary' = display_leads_comparison(actual_leads, expected_leads)
    /\ fm_pc' = "displayed"
    /\ UNCHANGED <<actual_leads, expected_leads, fm_out, fm_given, fm_again>>
    /\ UNCHANGED <<textVars, builderVars, generatorVars, gateVars, groupVars, topicMapVars, parallelVars, roundTripVars, runnerVars>>

InitMatcher ==
    /\ actual_leads \in SeqUpTo(LeadPool, MaxLeads)
    /\ expected_leads \in SeqUpTo(LeadPool, MaxLeads)
    /\ fm_pc = "input" /\ fm_out = find_lead_matches(<<>>, <<>>)
    /\ fm_given = <<actual_leads, expected_leads>>
    /\ fm_again = fm_out
    /\ summary = NoObject
    /\ TextIdle /\ BuilderIdle /\ GeneratorIdle /\ GateIdle
    /\ GroupIdle /\ TopicMapsIdle /\ ParallelIdle /\ RoundTripIdle /\ RunnerIdle

-----------------------------------------------------------------------------
(* Scenario: one Sample Builder call on the works the source returns.      *)

Ann == [id |-> "A1", display_name |-> <<"Ann">>]
Bob == [id |-> "A2", display_name |-> <<"Bob">>]

\* four institutions: two in the target city, one in the target country but
\* another city, one in another country
MIT == [id |-> "I1", country_code |-> "US", display_name |-> <<"MIT">>,
        display_name_alternatives |-> <<>>, geo_city |-> <<"Boston">>]
Harvard == [id |-> "I2", country_code |-> "US", display_name |-> <<"Harvard">>,
            display_name_alternatives |-> <<"HU">>, geo_city |-> <<"Boston">>]
UCLA == [id |-> "I3", country_code |-> "US", display_name |-> <<"UCLA">>,
         display_name_alternatives |-> <<>>, geo_city |-> <<"Los Angeles">>]
UofA == [id |-> "I4", country_code |-> "CA", display_name |-> <<"UofA">>,
         display_name_alternatives |-> <<>>, geo_city |-> <<"Edmonton">>]

\* primary topics of the works: without subfield, with subfield, with an
\* empty display name, and a work without primary topic
TopicPool ==
    {<<[display_name |-> <<"Nutrition">>, subfield |-> <<>>]>>,
     <<[display_name |-> <<"Oncology">>, subfield |-> <<"Medicine">>]>>,
     <<[display_name |-> <<>>, subfield |-> <<>>]>>,
     NoObject}

Authorship(a, insts) == [author |-> a, institutions |-> insts]

\* the authorship lists of a work
AuthorshipPool ==
    {<<>>,
     <<Authorship(Ann, <<MIT>>)>>,
     <<Authorship(Bob, <<UofA>>)>>,
     <<Authorship(Ann, <<UCLA, Harvard>>)>>,
     <<Authorship(Bob, <<MIT>>), Authorship(Ann, <<Harvard>>)>>,
     <<Authorship(Ann, <<>>), Authorship(Bob, <<UCLA>>)>>}

\* the arguments of the builder calls
TargetPool ==
    {[topic_id |-> "T1", institution_id |-> "I1", country_code |-> "US",
      city |-> <<"Boston">>],
     [topic_id |-> "T1", institution_id |-> "I2", country_code |-> "US",
      city |-> <<"Los Angeles">>]}

\* the cache before the call: empty, or holding the earlier lookup of one
\* institution
NoCache == [i \in {} |-> <<>>]
CachePool == {NoCache} \cup {(i.id :> i.geo_city) : i \in {Harvard, UCLA}}

\* works number k of the result carries the id k
WithIds(shapes) ==
    [k \in 1..Len(shapes) |->
        [id |-> k, primary_topic |-> shapes[k][1], authorships |-> shapes[k][2]]]

BuilderOf(kind, target, results, cache) ==
    CASE kind = "institution" ->
            process_institution_based_searches(target, results, cache)
      [] kind = "city" -> process_city_based_searches(target, results, cache)
      [] kind = "country" -> process_country_based_searches(target, results, cache)

\* a caller awaits one builder
CallBuilder ==
    /\ b_pc = "input"
    /\ b_out' = BuilderOf(b_kind, b_target, query_results, city_search_cache)
    /\ city_search_cache' = b_out'.city_search_cache
    /\ b_pc' = "done"
    /\ UNCHANGED <<b_kind, b_target, query_results>>
    /\ UNCHANGED <<textVars, matcherVars, generatorVars, gateVars, groupVars, topicMapVars, parallelVars, roundTripVars, runnerVars>>

InitBuilder ==
    /\ b_kind \in BuilderKinds
    /\ b_target \in TargetPool
    /\ \E shapes \in SeqUpTo(TopicPool \X AuthorshipPool, MaxWorks) :
          query_results = WithIds(shapes)
    /\ city_search_cache \in CachePool
    /\ b_pc = "input" /\ b_out = [kind |-> "none"]
    /\ TextIdle /\ MatcherIdle /\ GeneratorIdle /\ GateIdle
    /\ GroupIdle /\ TopicMapsIdle /\ ParallelIdle /\ RoundTripIdle /\ RunnerIdle

-----------------------------------------------------------------------------
(* Scenario: runs of generate_queries over one checkpoint directory, with  *)
(* crashes, restarts and damage to the files between runs.                 *)

\* the topic maps gathering yields from the source
MapsPool ==
    {[topics_per_institution |-> << <<"I1", {"T1", "T2"}>> >>,
      topics_per_city |-> << <<"Boston", {<<"T1", "US">>}>> >>,
      topics_per_country |-> << <<"US", {"T1"}>> >>],
     [topics_per_institution |-> << <<"I1", {"T1"}>>, <<"I2", {"T1"}>> >>,
      topics_per_city |-> <<>>,
      topics_per_country |-> << <<"US", {"T2"}>> >>]}

\* every combination of the maps
AllCombinations(maps) ==
    Combinations("institution", maps.topics_per_institution)
    \cup Combinations("city", maps.topics_per_city)
    \cup Combinations("country", maps.topics_per_country)

\* the source: the maps, and at most one combination whose works hold no
\* qualifying authorship (its builder raises)
SourcePool ==
    UNION {{[maps |-> m, failing |-> f] :
                f \in {{}} \cup {{c} : c \in AllCombinations(m) \cap
                                          {<<"institution", "I1", "T1">>,
                                           <<"country", "US", "T1">>}}} :
           m \in MapsPool}

\* the configurations: batch_size and parallel_batch_size
ConfigPool == {[batch_size |-> b, parallel_batch_size |-> p] :
                    b \in {1, 2}, p \in {1, 3}}

Running == {"build", "save_gathered", "plan", "checkpoint", "progress", "final"}

\* the calls _get_topic_maps makes: the pages of the main query and, for
\* the institutions of a record, the institution search
GatherCalls(maps) ==
    {ExternalCall("Works.paginate")}
    \cup IF AllCombinations(maps) # {}
         THEN {ExternalCall("Institutions.search_filter.get")} ELSE {}

\* the calls the builder tasks of a group make: the work query of each and,
\* for city builders starting from an empty city_search_cache that return a
\* Sample, the lookup of an institution's city
BuilderCalls(kind, group, path, raised) ==
    IF group = <<>> THEN {}
    ELSE {ExternalCall("Works.get")}
         \cup IF kind = "city" /\ path = "gather" /\ ~raised
              THEN {ExternalCall("Institutions[id]")} ELSE {}

\* generate_queries is called in a new process: load_progress, the loop of
\* load_checkpoint, then gather_data's topic maps or load_gathered_data
StartRun ==
    /\ gen.pc \in {"stopped", "done", "failed"}
    /\ hist.runs < MaxRuns
    /\ LET progress == load_progress(progress_file)
           loaded == IF progress.error = "none"
                     THEN LoadCheckpoints(checkpoint_files,
                                          progress.completed_batches)
                     ELSE [error |-> progress.error, logged |-> FALSE,
                           results |-> <<>>]
           started == [Stopped EXCEPT
                            !.completed_batches = progress.completed_batches,
                            !.all_results = loaded.results]
       IN  /\ hist' = [hist EXCEPT !.runs = @ + 1,
                                   !.start_progress = progress_file,
                                   !.start_checkpoints = checkpoint_files,
                                   !.loaded_completed = progress.completed_batches,
                                   !.loaded = loaded.results,
                                   !.logged = progress.logged \/ loaded.logged,
                                   !.api_calls =
                                       IF loaded.error = "none"
                                          /\ ~Exists(gathered_data_file)
                                       THEN GatherCalls(source.maps) ELSE {},
                                   !.gathers =
                                       IF loaded.error = "none"
                                          /\ ~Exists(gathered_data_file)
                                       THEN @ + 1 ELSE @,
                                   !.raised = {}, !.dropped = {}]
           /\ IF loaded.error # "none"
              THEN gen' = [Stopped EXCEPT !.pc = "failed", !.error = loaded.error]
              ELSE IF ~Exists(gathered_data_file)
              THEN \* gather_data: _get_main_query, _get_topic_maps
                   \E orders \in AllCombinationOrders(source.maps) :
                      gen' = [started EXCEPT
                                !.pc = "build", !.path = "gather",
                                !.maps = source.maps,
                                !.all_combinations = orders,
                                !.build_order = <<"city", "country", "institution">>]
              ELSE IF gathered_data_file.status = "malformed"
              THEN \* load_gathered_data returns False with no map assigned;
                   \* _get_institution_based_searches reads the missing attribute
                   gen' = [started EXCEPT !.pc = "failed",
                                          !.error = "AttributeError"]
              ELSE \E orders \in AllCombinationOrders(gathered_data_file.content[1]) :
                      gen' = [started EXCEPT
                                !.pc = "build", !.path = "load",
                                !.maps = gathered_data_file.content[1],
                                !.all_combinations = orders,
                                !.build_order = <<"institution", "city", "country">>]
    /\ UNCHANGED <<config, source, diskVars>>
    /\ UNCHANGED <<textVars, matcherVars, builderVars, gateVars, groupVars, topicMapVars, parallelVars, roundTripVars, runnerVars>>

\* one pass of the `for batch_start in range(...)` loop of a _get_*_searches
\* (the tasks of the group, asyncio.gather, extend), or its end
BuildGroup ==
    /\ gen.pc = "build"
    /\ LET kind == Head(gen.build_order)
           all_combinations == gen.all_combinations[kind]
           batch_size == config.parallel_batch_size
           batch_end == Min(gen.batch_start + batch_size, Len(all_combinations))
           batch_combinations == Slice(all_combinations, gen.batch_start, batch_end)
           batch_results == Gather(batch_combinations, source.failing)
           last == batch_end >= Len(all_combinations)
           after == IF Len(gen.build_order) > 1 THEN "build"
                    ELSE IF gen.path = "gather" THEN "save_gathered" ELSE "plan"
       IN  IF batch_results.error # "none"
           THEN /\ gen' = [gen EXCEPT !.pc = "failed",
                                      !.error = batch_results.error]
                /\ hist' = [hist EXCEPT
                      !.api_calls = @ \cup BuilderCalls(kind, batch_combinations,
                                                       gen.path, TRUE),
                      !.raised = {batch_combinations[k] :
                                    k \in 1..Len(batch_combinations)}
                                 \cap source.failing,
                      !.dropped = {batch_combinations[k] :
                                    k \in 1..Len(batch_combinations)}
                                  \ source.failing]
           ELSE /\ gen' = [ExtendSearchList(gen, kind, batch_results.results)
                             EXCEPT !.batch_start = IF last THEN 0 ELSE batch_end,
                                    !.build_order = IF last THEN Tail(@) ELSE @,
                                    !.pc = IF last THEN after ELSE "build"]
                /\ hist' = [hist EXCEPT
                      !.api_calls = @ \cup BuilderCalls(kind, batch_combinations,
                                                       gen.path, FALSE)]
    /\ UNCHANGED <<config, source, diskVars>>
    /\ UNCHANGED <<textVars, matcherVars, builderVars, gateVars, groupVars, topicMapVars, parallelVars, roundTripVars, runnerVars>>

\* save_gathered_data after gather_data
SaveGatheredData ==
    /\ gen.pc = "save_gathered"
    /\ gathered_data_file' = JsonFile(gen.maps)
    /\ gen' = [gen EXCEPT !.pc = "plan"]
    /\ UNCHANGED <<config, source, progress_file, checkpoint_files,
                   final_output, hist>>
    /\ UNCHANGED <<textVars, matcherVars, builderVars, gateVars, groupVars, topicMapVars, parallelVars, roundTripVars, runnerVars>>

\* all_searches, remaining_searches, the early return, total_batches
PlanBatches ==
    /\ gen.pc = "plan"
    /\ LET all_searches == gen.institution_based_searches
                              \o gen.city_based_searches
                              \o gen.country_based_searches
           remaining_searches ==
               Slice(all_searches, Len(gen.all_results), Len(all_searches))
           batch_size == config.batch_size
       IN  IF remaining_searches = <<>>
           THEN gen' = [gen EXCEPT !.pc = "done", !.returned = gen.all_results]
           ELSE gen' = [gen EXCEPT
                          !.pc = "checkpoint",
                          !.remaining_searches = remaining_searches,
                          !.total_batches =
                              (Len(remaining_searches) + batch_size - 1)
                                  \div batch_size,
                          !.batch_idx = 0]
    /\ UNCHANGED <<config, source, diskVars, hist>>
    /\ UNCHANGED <<textVars, matcherVars, builderVars, gateVars, groupVars, topicMapVars, parallelVars, roundTripVars, runnerVars>>

\* the batch of the loop pass: remaining_searches[start_idx:end_idx]
BatchSearches(g, batch_size) ==
    Slice(g.remaining_searches, g.batch_idx * batch_size,
          Min(g.batch_idx * batch_size + batch_size, Len(g.remaining_searches)))

\* the first half of a pass of the batch loop: batch_num, save_checkpoint,
\* all_results.extend
SaveCheckpoint ==
    /\ gen.pc = "checkpoint"
    /\ LET batch_num == BatchNum(gen.completed_batches, gen.batch_idx)
           batch_results == BatchSearches(gen, config.batch_size)
       IN  /\ checkpoint_files' =
                  [n \in DOMAIN checkpoint_files \cup {batch_num} |->
                      IF n = batch_num
                      THEN JsonFile([batch_num |-> batch_num,
                                     results |-> batch_results])
                      ELSE checkpoint_files[n]]
           /\ gen' = [gen EXCEPT !.pc = "progress",
                                 !.batch_num = batch_num,
                                 !.all_results = @ \o batch_results]
    /\ UNCHANGED <<config, source, gathered_data_file, progress_file,
                   final_output, hist>>
    /\ UNCHANGED <<textVars, matcherVars, builderVars, gateVars, groupVars, topicMapVars, parallelVars, roundTripVars, runnerVars>>

\* the second half: completed_batches.append, save_progress
SaveProgress ==
    /\ gen.pc = "progress"
    /\ LET completed_batches == Append(gen.completed_batches, gen.batch_num)
       IN  /\ progress_file' =
                  JsonFile([completed_batches |-> completed_batches,
                            total_results |-> Len(gen.all_results)])
           /\ gen' = [gen EXCEPT
                        !.completed_batches = completed_batches,
                        !.batch_idx = @ + 1,
                        !.pc = IF gen.batch_idx + 1 < gen.total_batches
                               THEN "checkpoint" ELSE "final"]
    /\ UNCHANGED <<config, source, gathered_data_file, checkpoint_files,
                   final_output, hist>>
    /\ UNCHANGED <<textVars, matcherVars, builderVars, gateVars, groupVars, topicMapVars, parallelVars, roundTripVars, runnerVars>>

\* the final output file is written and generate_queries returns all_results
WriteFinalOutput ==
    /\ gen.pc = "final"
    /\ final_output' = JsonFile(gen.all_results)
    /\ gen' = [gen EXCEPT !.pc = "done", !.returned = gen.all_results]
    /\ UNCHANGED <<config, source, gathered_data_file, progress_file,
                   checkpoint_files, hist>>
    /\ UNCHANGED <<textVars, matcherVars, builderVars, gateVars, groupVars, topicMapVars, parallelVars, roundTripVars, runnerVars>>

\* the process is killed between two steps
Crash ==
    /\ gen.pc \in Running
    /\ gen' = Stopped
    /\ UNCHANGED <<config, source, diskVars, hist>>
    /\ UNCHANGED <<textVars, matcherVars, builderVars, gateVars, groupVars, topicMapVars, parallelVars, roundTripVars, runnerVars>>

\* the process is killed inside a write: open(file, "w") has truncated the
\* file and json.dump has not finished
CrashInWrite ==
    /\ gen.pc \in {"save_gathered", "checkpoint", "progress", "final"}
    /\ gathered_data_file' =
          IF gen.pc = "save_gathered" THEN MalformedFile ELSE gathered_data_file
    /\ checkpoint_files' =
          IF gen.pc = "checkpoint"
          THEN LET batch_num == BatchNum(gen.completed_batches, gen.batch_idx)
               IN  [n \in DOMAIN checkpoint_files \cup {batch_num} |->
                      IF n = batch_num THEN MalformedFile ELSE checkpoint_files[n]]
          ELSE checkpoint_files
    /\ progress_file' = IF gen.pc = "progress" THEN MalformedFile ELSE progress_file
    /\ final_output' = IF gen.pc = "final" THEN MalformedFile ELSE final_output
    /\ gen' = Stopped
    /\ UNCHANGED <<config, source, hist>>
    /\ UNCHANGED <<textVars, matcherVars, builderVars, gateVars, groupVars, topicMapVars, parallelVars, roundTripVars, runnerVars>>

\* between runs, a checkpoint file or the progress file is deleted or damaged
DamageFile ==
    /\ gen.pc \in {"stopped", "done", "failed"}
    /\ hist.damage < MaxDamage
    /\ \/ /\ progress_file.status = "ok"
          /\ progress_file' \in {MissingFile, MalformedFile}
          /\ UNCHANGED checkpoint_files
       \/ /\ \E n \in DOMAIN checkpoint_files :
                \/ checkpoint_files' =
                      [m \in DOMAIN checkpoint_files \ {n} |-> checkpoint_files[m]]
                \/ /\ checkpoint_files[n].status = "ok"
                   /\ checkpoint_files' =
                        [checkpoint_files EXCEPT ![n] = MalformedFile]
          /\ UNCHANGED progress_file
    /\ hist' = [hist EXCEPT !.damage = @ + 1]
    /\ UNCHANGED <<config, source, gathered_data_file, final_output, gen>>
    /\ UNCHANGED <<textVars, matcherVars, builderVars, gateVars, groupVars, topicMapVars, parallelVars, roundTripVars, runnerVars>>

InitGenerator ==
    /\ config \in ConfigPool
    /\ source \in SourcePool
    /\ gathered_data_file = MissingFile /\ progress_file = MissingFile
    /\ checkpoint_files = <<>> /\ final_output = MissingFile
    /\ gen = Stopped /\ hist = NoHistory
    /\ TextIdle /\ MatcherIdle /\ BuilderIdle /\ GateIdle
    /\ GroupIdle /\ TopicMapsIdle /\ ParallelIdle /\ RoundTripIdle /\ RunnerIdle

-----------------------------------------------------------------------------
(* Scenario: tasks of one event loop calling rate_limited_api_call.        *)

Tasks == 1..MaxTasks

\* `async with API_SEMAPHORE:` is entered: a free permit is taken
Acquire(t) ==
    /\ calls[t].pc = "start"
    /\ API_SEMAPHORE > 0
    /\ API_SEMAPHORE' = API_SEMAPHORE - 1
    /\ calls' = [calls EXCEPT ![t].pc = "call"]
    /\ UNCHANGED gate_width

\* result = api_call_func(), returning or raising; either way the task goes
\* on to `await asyncio.sleep(API_DELAY)`
CallApi(t) ==
    /\ calls[t].pc = "call"
    /\ \E outcome \in ApiOutcomes :
          calls' = [calls EXCEPT ![t].pc = "sleep", ![t].api = outcome]
    /\ UNCHANGED <<API_SEMAPHORE, gate_width>>

\* API_DELAY has elapsed and the sleep returns
DelayElapsed(t) ==
    /\ calls[t].pc = "sleep"
    /\ calls' = [calls EXCEPT ![t].pc = "exit", ![t].slept = TRUE]
    /\ UNCHANGED <<API_SEMAPHORE, gate_width>>

\* a gate that keeps the permit of a call that raised
ReleaseLeaking(t) ==
    /\ calls[t].pc = "exit"
    /\ API_SEMAPHORE' = IF calls[t].api.kind = "error" THEN API_SEMAPHORE
                        ELSE API_SEMAPHORE + 1
    /\ calls' = [calls EXCEPT ![t].pc = "left",
                              ![t].out = CallOutcome(calls[t].api)]
    /\ UNCHANGED gate_width

\* `return result` or `raise e` leaves the `async with`: the permit is given
\* back and the caller gets the value or the exception
Release(t) ==
    /\ calls[t].pc = "exit"
    /\ API_SEMAPHORE' = API_SEMAPHORE + 1
    /\ calls' = [calls EXCEPT ![t].pc = "left",
                              ![t].out = CallOutcome(calls[t].api)]
    /\ UNCHANGED gate_width

InitGate ==
    /\ gate_width \in 1..MaxPermits
    /\ API_SEMAPHORE = gate_width
    /\ calls = [t \in Tasks |-> NotCalled]
    /\ TextIdle /\ MatcherIdle /\ BuilderIdle /\ GeneratorIdle
    /\ GroupIdle /\ TopicMapsIdle /\ ParallelIdle /\ RoundTripIdle /\ RunnerIdle

NextGate ==
    \E t \in Tasks :
        /\ \/ Acquire(t)
           \/ CallApi(t)
           \/ DelayElapsed(t)
           \/ Release(t)
        /\ UNCHANGED <<textVars, matcherVars, builderVars, generatorVars, groupVars, topicMapVars, parallelVars, roundTripVars, runnerVars>>

-----------------------------------------------------------------------------
(* Scenario: one parallel group of city Sample-Builder tasks.              *)

\* an institution whose record the source does not serve
Offline == [id |-> "I9", country_code |-> "US", display_name |-> <<"Offline">>,
            display_name_alternatives |-> <<>>, geo_city |-> <<"Boston">>]

\* the authorship lists of the one work a task of the group receives
GroupAuthorshipPool ==
    AuthorshipPool
    \cup {<<Authorship(Bob, <<Offline>>), Authorship(Ann, <<MIT>>)>>,
          <<Authorship(Ann, <<MIT>>), Authorship(Bob, <<MIT>>)>>}

\* the tasks of a group: a city combination and the works of its query
GroupTaskPool ==
    LET topic == [display_name |-> <<"Nutrition">>, subfield |-> <<>>]
    IN  {NewTask(target, WithIds(<< << <<topic>>, a >> >>)) :
            target \in TargetPool, a \in GroupAuthorshipPool}

\* the event loop runs the next ready task: the whole of
\* _process_city_based_searches, up to its return or raise
RunTask ==
    /\ grp.pc = "gather" /\ grp.ready # <<>>
    /\ LET t == Head(grp.ready)
           task == grp.tasks[t]
           out == process_city_based_searches(task.target, task.query_results,
                                              grp.city_search_cache)
       IN  grp' = [grp EXCEPT !.tasks[t].out = out,
                              !.ready = Tail(@),
                              !.completed = Append(@, t),
                              !.city_search_cache = out.city_search_cache]
    /\ UNCHANGED <<textVars, matcherVars, builderVars, generatorVars, gateVars,
                   topicMapVars, parallelVars, roundTripVars, runnerVars>>

\* every task is done: `await asyncio.gather(*tasks)` returns batch_results
\* or raises
GatherReturns ==
    /\ grp.pc = "gather" /\ grp.ready = <<>>
    /\ LET error == FirstRaised(grp.tasks, grp.completed)
       IN  IF error # "none"
           THEN grp' = [grp EXCEPT !.pc = "raised", !.error = error]
           ELSE grp' = [grp EXCEPT !.pc = "extend",
                                   !.batch_results = GatherResults(grp.tasks)]
    /\ UNCHANGED <<textVars, matcherVars, builderVars, generatorVars, gateVars,
                   topicMapVars, parallelVars, roundTripVars, runnerVars>>

\* self.city_based_searches.extend(batch_results)
ExtendSearches ==
    /\ grp.pc = "extend"
    /\ grp' = [grp EXCEPT !.pc = "extended",
                          !.city_based_searches = @ \o grp.batch_results]
    /\ UNCHANGED <<textVars, matcherVars, builderVars, generatorVars, gateVars,
                   topicMapVars, parallelVars, roundTripVars, runnerVars>>

InitGroup ==
    /\ \E tasks \in SeqUpTo(GroupTaskPool, MaxGroup) \ {<<>>},
          cache \in CachePool :
          grp = [NoGroup EXCEPT !.pc = "gather",
                                !.tasks = tasks,
                                !.ready = [k \in 1..Len(tasks) |-> k],
                                !.city_search_cache = cache,
                                !.cache_at_start = cache]
    /\ TextIdle /\ MatcherIdle /\ BuilderIdle /\ GeneratorIdle /\ GateIdle
    /\ TopicMapsIdle /\ ParallelIdle /\ RoundTripIdle /\ RunnerIdle

NextGroup ==
    \/ RunTask
    \/ GatherReturns
    \/ ExtendSearches

-----------------------------------------------------------------------------
(* Scenario: _get_topic_maps over the records of the main query.           *)
(*                                                                         *)
(* A topic map is a function from its keys to their topic sets; a ratio is *)
(* given in tenths (0.1 is 1).                                             *)

\* int(self.config.target_queries * ratio)
QueriesTarget(target_queries, ratio) == (target_queries * ratio) \div 10

RECURSIVE CombinationCount(_)
\* sum(len(topics) for topics in topic_map.values())
CombinationCount(topic_map) ==
    IF DOMAIN topic_map = {} THEN 0
    ELSE LET key == CHOOSE x \in DOMAIN topic_map : TRUE
         IN  Cardinality(topic_map[key])
             + CombinationCount([x \in DOMAIN topic_map \ {key} |->
                                    topic_map[x]])

\* get_current_combination_counts
get_current_combination_counts(g) ==
    LET institution_combinations == CombinationCount(g.topics_per_institution)
        city_combinations == CombinationCount(g.topics_per_city)
        country_combinations == CombinationCount(g.topics_per_country)
    IN  [total |-> institution_combinations + city_combinations
                    + country_combinations,
         institution |-> institution_combinations,
         city |-> city_combinations,
         country |-> country_combinations]

\* topic_map[key].add(topic) on a defaultdict(set)
AddTopic(topic_map, key, topic) ==
    IF key \in DOMAIN topic_map
    THEN [topic_map EXCEPT ![key] = @ \cup {topic}]
    ELSE (key :> {topic}) @@ topic_map

\* a gathering that adds whatever the counts are
UnderTargetAlways(valid_queries, queries_target) == TRUE

\* `if valid_country_queries < self.country_based_queries_target` and its
\* two likes
UnderTarget(valid_queries, queries_target) == valid_queries < queries_target

\* institutions of the source that works do not name: one whose name
\* resembles Harvard's, in another city
HarvardExtension ==
    [id |-> "I7", country_code |-> "US", display_name |-> <<"Harvard Ext">>,
     display_name_alternatives |-> <<>>, geo_city |-> <<"Cambridge">>]
\* an institution of the target countries without a city in its record
NoCity ==
    [id |-> "I8", country_code |-> "US", display_name |-> <<"NoCity">>,
     display_name_alternatives |-> <<>>, geo_city |-> NoObject]
\* an institution of a country outside COUNTRIES
Foreign ==
    [id |-> "I6", country_code |-> "FR", display_name |-> <<"Foreign">>,
     display_name_alternatives |-> <<>>, geo_city |-> <<"Paris">>]

\* pyalex.Institutions().search_filter(display_name=...).get(): the
\* institutions the source returns for a name, or the exception it raises
InstitutionsSearch(inst) ==
    CASE inst.id = "I1" -> [error |-> "none", results |-> <<MIT>>]
      [] inst.id = "I2" -> [error |-> "none",
                            results |-> <<HarvardExtension, Harvard>>]
      [] inst.id = "I3" -> [error |-> "HTTPError", results |-> <<>>]
      [] inst.id = "I4" -> [error |-> "none", results |-> <<UofA>>]
      [] inst.id = "I8" -> [error |-> "none", results |-> <<NoCity>>]
      [] OTHER -> [error |-> "none", results |-> <<>>]

RECURSIVE CitySearchLoop(_, _, _, _, _, _)
\* `for inst_ in institution_search:` adding (topic, country) under the city
\* of the result that carries the institution's id; valid is
\* valid_city_queries as read before the loop, target the city target
CitySearchLoop(topics_per_city, institution_search, inst, topic_id, valid, target) ==
    IF institution_search = <<>> THEN topics_per_city
    ELSE LET inst_ == Head(institution_search)
             city == inst_.geo_city
             added ==
                IF /\ UnderTarget(valid, target)
                   /\ inst_.id = inst.id
                   /\ Truthy(city)
                THEN AddTopic(topics_per_city, city,
                              <<topic_id, inst.country_code>>)
                ELSE topics_per_city
         IN  CitySearchLoop(added, Tail(institution_search), inst, topic_id,
                            valid, target)

\* the body of `for inst in institution:`: the counts are refreshed, then
\* the primary topic is added to the country, institution and city maps,
\* each under its own target test
VisitInstitution(g, topic_id, inst) ==
    LET counts == get_current_combination_counts(g)
    IN  IF inst.country_code \notin DOMAIN COUNTRIES THEN g
        ELSE LET g1 == IF UnderTarget(counts.country, g.targets.country)
                       THEN [g EXCEPT !.topics_per_country =
                                AddTopic(@, inst.country_code, topic_id)]
                       ELSE g
                 g2 == IF UnderTarget(counts.institution, g.targets.institution)
                       THEN [g1 EXCEPT !.topics_per_institution =
                                AddTopic(@, inst.id, topic_id)]
                       ELSE g1
                 institution_search == InstitutionsSearch(inst)
             IN  IF institution_search.error # "none" THEN g2
                 ELSE [g2 EXCEPT !.topics_per_city =
                          CitySearchLoop(@, institution_search.results, inst,
                                         topic_id, counts.city, g.targets.city)]

\* the (authorship, institution) pairs the two inner loops of a record visit
RecordVisits(record) == AuthorshipVisits(record, 1)

\* the ratios of a configuration, in tenths: the defaults, two others that
\* sum to 1, and one that sums to more (GenerationConfig validates nothing)
RatioPool ==
    {[country |-> 1, city |-> 4, institution |-> 5],
     [country |-> 5, city |-> 5, institution |-> 0],
     [country |-> 0, city |-> 5, institution |-> 5],
     [country |-> 5, city |-> 5, institution |-> 5]}

\* the records of the main query: a primary topic or none, and authorships
RecordPool ==
    {[primary_topic |-> <<[id |-> t]>>, authorships |-> a] :
        t \in {"T1", "T2"},
        a \in {<<>>,
               <<Authorship(Ann, <<MIT>>)>>,
               <<Authorship(Ann, <<Harvard>>), Authorship(Bob, <<UofA>>)>>,
               <<Authorship(Ann, <<UCLA, Foreign>>), Authorship(Bob, <<NoCity>>)>>}}
    \cup {[primary_topic |-> NoObject,
           authorships |-> <<Authorship(Ann, <<MIT>>)>>]}

\* the top of `for record in chain(...)`: the next record is taken, or none
\* is left; the counts are read and the function returns if the total has
\* reached target_queries; a record without authorships or primary topic is
\* skipped
FetchRecord ==
    /\ tm.pc = "paging" /\ tm.k = 0
    /\ IF tm.pos > Len(tm.records)
       THEN tm' = [tm EXCEPT !.pc = "exhausted"]
       ELSE IF get_current_combination_counts(tm).total >= tm.target_queries
       THEN tm' = [tm EXCEPT !.pc = "returned"]
       ELSE LET record == tm.records[tm.pos]
            IN  IF \/ record.authorships = <<>>
                   \/ record.primary_topic = NoObject
                   \/ RecordVisits(record) = <<>>
                THEN tm' = [tm EXCEPT !.pos = @ + 1]
                ELSE tm' = [tm EXCEPT !.k = 1]
    /\ UNCHANGED <<textVars, matcherVars, builderVars, generatorVars, gateVars,
                   groupVars, parallelVars, roundTripVars, runnerVars>>

\* one pass of `for inst in institution:` within the record
ProcessInstitution ==
    /\ tm.pc = "paging" /\ tm.k > 0
    /\ LET record == tm.records[tm.pos]
           visits == RecordVisits(record)
           after == VisitInstitution(tm, record.primary_topic[1].id,
                                     visits[tm.k].inst)
       IN  tm' = IF tm.k < Len(visits)
                 THEN [after EXCEPT !.k = @ + 1]
                 ELSE [after EXCEPT !.k = 0, !.pos = @ + 1]
    /\ UNCHANGED <<textVars, matcherVars, builderVars, generatorVars, gateVars,
                   groupVars, parallelVars, roundTripVars, runnerVars>>

InitTopicMaps ==
    /\ \E target_queries \in 1..MaxTarget, ratios \in RatioPool,
          records \in SeqUpTo(RecordPool, MaxRecords) :
          tm = [NoTopicMaps EXCEPT
                  !.pc = "paging",
                  !.target_queries = target_queries,
                  !.ratios = ratios,
                  !.targets =
                      [country |-> QueriesTarget(target_queries, ratios.country),
                       city |-> QueriesTarget(target_queries, ratios.city),
                       institution |->
                           QueriesTarget(target_queries, ratios.institution)],
                  !.records = records,
                  !.pos = 1]
    /\ TextIdle /\ MatcherIdle /\ BuilderIdle /\ GeneratorIdle /\ GateIdle
    /\ GroupIdle /\ ParallelIdle /\ RoundTripIdle /\ RunnerIdle

NextTopicMaps ==
    \/ FetchRecord
    \/ ProcessInstitution

-----------------------------------------------------------------------------
(* Scenario: _get_country_based_searches, group after group.               *)
(*                                                                         *)
(* A combination is its place in all_combinations; the Sample a task       *)
(* returns is written as the combination it was built for.                 *)

\* a loop that takes all the remaining combinations as one group
BatchEndAll(batch_start, batch_size, n) == n

\* batch_end = min(batch_start + batch_size, len(all_combinations))
BatchEnd(batch_start, batch_size, n) == Min(batch_start + batch_size, n)

\* the values of config.parallel_batch_size, the default 3 among them
ParallelBatchSizes == {1, 2, 3}

\* the tasks asyncio.gather has created and that have not finished
InFlight(p) == {t \in 1..Len(p.tasks) : p.tasks[t].status = "pending"}

\* the tasks created in the pass of the loop that began at batch_start
TasksOfGroup(p, batch_start) ==
    {t \in 1..Len(p.tasks) : p.tasks[t].batch_start = batch_start}

\* the top of `for batch_start in range(0, len(all_combinations),
\* batch_size)`: the loop ends, or the slice is taken, a coroutine is made
\* for each of its combinations and asyncio.gather wraps each in a task
CreateTasks ==
    /\ par.pc = "loop"
    /\ IF par.batch_start >= Len(par.all_combinations)
       THEN par' = [par EXCEPT !.pc = "returned"]
       ELSE LET batch_end == BatchEnd(par.batch_start, par.batch_size,
                                      Len(par.all_combinations))
                batch_combinations ==
                    Slice(par.all_combinations, par.batch_start, batch_end)
            IN  par' = [par EXCEPT
                          !.pc = "gather",
                          !.tasks = @ \o
                              [k \in 1..Len(batch_combinations) |->
                                  [combination |-> batch_combinations[k],
                                   batch_start |-> par.batch_start,
                                   status |-> "pending"]]]
    /\ UNCHANGED <<textVars, matcherVars, builderVars, generatorVars, gateVars,
                   groupVars, topicMapVars, roundTripVars, runnerVars>>

\* the event loop runs the next task: _process_country_based_searches holds
\* no await, so the task runs to its return or its raise
RunCountryTask ==
    /\ par.pc = "gather" /\ InFlight(par) # {}
    /\ LET t == CHOOSE x \in InFlight(par) : \A y \in InFlight(par) : x <= y
       IN  par' = [par EXCEPT !.tasks[t].status =
                      IF par.tasks[t].combination \in par.failing
                      THEN "raised" ELSE "returned"]
    /\ UNCHANGED <<textVars, matcherVars, builderVars, generatorVars, gateVars,
                   groupVars, topicMapVars, roundTripVars, runnerVars>>

\* `batch_results = await asyncio.gather of the tasks` resumes: with the
\* Samples of the group, or raising what a task raised
AwaitGather ==
    /\ par.pc = "gather" /\ InFlight(par) = {}
    /\ LET group == TasksOfGroup(par, par.batch_start)
       IN  IF \E t \in group : par.tasks[t].status = "raised"
           THEN par' = [par EXCEPT !.pc = "raised", !.error = "ValueError"]
           ELSE par' = [par EXCEPT
                          !.pc = "extend",
                          !.batch_results =
                              SelectSeq([t \in 1..Len(par.tasks) |->
                                            IF t \in group
                                            THEN par.tasks[t].combination
                                            ELSE 0],
                                        LAMBDA c : c # 0)]
    /\ UNCHANGED <<textVars, matcherVars, builderVars, generatorVars, gateVars,
                   groupVars, topicMapVars, roundTripVars, runnerVars>>

\* self.country_based_searches.extend(batch_results), the progress bar, the
\* sleep between groups, and the loop variable moves on
ExtendCountrySearches ==
    /\ par.pc = "extend"
    /\ par' = [par EXCEPT !.pc = "loop",
                          !.country_based_searches = @ \o par.batch_results,
                          !.batch_start = @ + par.batch_size]
    /\ UNCHANGED <<textVars, matcherVars, builderVars, generatorVars, gateVars,
                   groupVars, topicMapVars, roundTripVars, runnerVars>>

InitParallel ==
    /\ \E n \in 0..MaxCombinations, batch_size \in ParallelBatchSizes :
          \E failing \in SUBSET (1..n) :
             par = [NoParallel EXCEPT !.pc = "loop",
                                      !.all_combinations = [k \in 1..n |-> k],
                                      !.failing = failing,
                                      !.batch_size = batch_size]
    /\ TextIdle /\ MatcherIdle /\ BuilderIdle /\ GeneratorIdle /\ GateIdle
    /\ GroupIdle /\ TopicMapsIdle /\ RoundTripIdle /\ RunnerIdle

NextParallel ==
    \/ CreateTasks
    \/ RunCountryTask
    \/ AwaitGather
    \/ ExtendCountrySearches

-----------------------------------------------------------------------------
(* Scenario: a checkpoint is saved and loaded again.                       *)
(*                                                                         *)
(* A Python value is [t |-> its type, v |-> its payload]; a JSON value is  *)
(* [j |-> its kind, v |-> its payload].  A dict or object is a function    *)
(* from its keys, which in these files are all str.                        *)

PyStr(s) == [t |-> "str", v |-> s]
PyNone == [t |-> "NoneType", v |-> "None"]
PyInt(n) == [t |-> "int", v |-> n]
PyList(q) == [t |-> "list", v |-> q]
PyTuple(q) == [t |-> "tuple", v |-> q]
PySet(S) == [t |-> "set", v |-> S]
PyDict(f) == [t |-> "dict", v |-> f]
PyModel(class, fields) == [t |-> class, v |-> fields]

\* the pydantic models of types.py
ModelClasses ==
    {"Sample", "ResearchParams", "LeadResults", "Lead", "OpenAlexResults"}

\* class QueryType(str, Enum): member name to value
QueryTypeValues ==
    [m \in {"DOMAIN_TOPIC", "INSTITUTION_FOCUSED", "INDIVIDUAL_RESEARCHER",
            "LOCATION_BASED"} |->
        CASE m = "DOMAIN_TOPIC" -> "domain_topic"
          [] m = "INSTITUTION_FOCUSED" -> "institution_focused"
          [] m = "INDIVIDUAL_RESEARCHER" -> "individual_researcher"
          [] m = "LOCATION_BASED" -> "location_based"]
QueryType(member) == [t |-> "QueryType", v |-> member]

\* the declared type of a model's field, where it is not str or Optional[str]
FieldType(class, field) ==
    CASE class = "Sample" /\ field = "query_params" -> "ResearchParams"
      [] class = "Sample" /\ field = "query_type" -> "QueryType"
      [] class = "Sample" /\ field = "expected_results" -> "LeadResults"
      [] class = "Sample" /\ field = "openalex_results" -> "OpenAlexResults"
      [] class = "LeadResults" /\ field = "leads" -> "list[Lead]"
      [] OTHER -> "Optional[str]"

RECURSIVE model_dump(_)
\* sample.dict(): models become dicts, all the way down; an enum member, a
\* str and None stay what they are
model_dump(o) ==
    CASE o.t \in ModelClasses ->
            PyDict([f \in DOMAIN o.v |-> model_dump(o.v[f])])
      [] o.t = "list" -> PyList([k \in 1..Len(o.v) |-> model_dump(o.v[k])])
      [] OTHER -> o

RECURSIVE json_dump(_)
\* json.dump: a str and a member of a str-based Enum are written as strings
\* (the member as its value), None as null, a list or a tuple as an array,
\* a dict as an object; a set or a model is not serializable
json_dump(o) ==
    CASE o.t = "str" -> [j |-> "string", v |-> o.v]
      [] o.t = "QueryType" -> [j |-> "string", v |-> QueryTypeValues[o.v]]
      [] o.t = "NoneType" -> [j |-> "null", v |-> "null"]
      [] o.t = "int" -> [j |-> "number", v |-> o.v]
      [] o.t \in {"list", "tuple"} ->
            [j |-> "array", v |-> [k \in 1..Len(o.v) |-> json_dump(o.v[k])]]
      [] o.t = "dict" ->
            [j |-> "object", v |-> [k \in DOMAIN o.v |-> json_dump(o.v[k])]]
      [] OTHER -> [j |-> "TypeError", v |-> o.t]

RECURSIVE json_load(_)
\* json.load: a string is a str, null is None, an array a list, an object
\* a dict
json_load(js) ==
    CASE js.j = "string" -> PyStr(js.v)
      [] js.j = "null" -> PyNone
      [] js.j = "number" -> PyInt(js.v)
      [] js.j = "array" -> PyList([k \in 1..Len(js.v) |-> json_load(js.v[k])])
      [] js.j = "object" -> PyDict([k \in DOMAIN js.v |-> json_load(js.v[k])])

RECURSIVE Validate(_, _)
\* pydantic building a field of the declared type from a loaded value: a
\* dict becomes the model, a str the enum member of that value
Validate(type, value) ==
    CASE type \in ModelClasses /\ value.t = "dict" ->
            PyModel(type, [f \in DOMAIN value.v |->
                              Validate(FieldType(type, f), value.v[f])])
      [] type = "list[Lead]" /\ value.t = "list" ->
            PyList([k \in 1..Len(value.v) |-> Validate("Lead", value.v[k])])
      [] type = "QueryType" /\ value.t = "str" ->
            IF \E m \in DOMAIN QueryTypeValues : QueryTypeValues[m] = value.v
            THEN QueryType(CHOOSE m \in DOMAIN QueryTypeValues :
                                QueryTypeValues[m] = value.v)
            ELSE [t |-> "ValidationError", v |-> value.v]
      [] OTHER -> value

\* checkpoint_data of save_checkpoint, as written; the timestamp is left out
\* (load_checkpoint does not read it)
save_checkpoint(batch_num, results) ==
    json_dump(PyDict([k \in {"batch_num", "results"} |->
                        IF k = "batch_num" THEN PyInt(batch_num)
                        ELSE model_dump(results)]))

\* load_checkpoint on the file save_checkpoint wrote:
\* [Sample(**sample_dict) for sample_dict in checkpoint_data["results"]]
LoadCheckpointFile(file) ==
    LET checkpoint_data == json_load(file)
        results == checkpoint_data.v["results"]
    IN  PyList([k \in 1..Len(results.v) |-> Validate("Sample", results.v[k])])

\* list(v) of a set: its elements in some order
ListsOf(set) == {PyList(q) : q \in Orders(set.v)}

\* {k: list(v) for k, v in topic_map.items()}: the dicts it can build
ListedMaps(topic_map) ==
    {PyDict(f) : f \in {g \in [DOMAIN topic_map.v ->
                                  UNION {ListsOf(topic_map.v[k]) :
                                            k \in DOMAIN topic_map.v}] :
                           \A k \in DOMAIN topic_map.v :
                               g[k] \in ListsOf(topic_map.v[k])}}

\* the files save_gathered_data can write for the attributes of a generator
save_gathered_data(g) ==
    {json_dump(PyDict([k \in {"topics_per_country", "topics_per_city",
                              "topics_per_institution", "city_search_cache"} |->
                          CASE k = "topics_per_country" -> n
                            [] k = "topics_per_city" -> c
                            [] k = "topics_per_institution" -> i
                            [] k = "city_search_cache" -> g.city_search_cache])) :
        n \in ListedMaps(g.topics_per_country),
        c \in ListedMaps(g.topics_per_city),
        i \in ListedMaps(g.topics_per_institution)}

\* a loader that keeps the items of a city list as json.load gave them
CityItemAsLoaded(item) == item

\* `tuple(item) if isinstance(item, list) else item`
CityItem(item) == IF item.t = "list" THEN PyTuple(item.v) ELSE item

\* set(v) of a list; a list or a dict among the elements is unhashable
SetOf(list) ==
    IF \E k \in 1..Len(list.v) : list.v[k].t \in {"list", "dict", "set"}
    THEN [t |-> "TypeError", v |-> "unhashable"]
    ELSE PySet({list.v[k] : k \in 1..Len(list.v)})

\* the attributes load_gathered_data assigns from a file
load_gathered_data(file) ==
    LET gathered_data == json_load(file).v
        topics_per_country ==
            PyDict([k \in DOMAIN gathered_data["topics_per_country"].v |->
                       SetOf(gathered_data["topics_per_country"].v[k])])
        topics_per_city ==
            PyDict([k \in DOMAIN gathered_data["topics_per_city"].v |->
                       LET v == gathered_data["topics_per_city"].v[k]
                       IN  SetOf(PyList([x \in 1..Len(v.v) |->
                                            CityItem(v.v[x])]))])
        topics_per_institution ==
            PyDict([k \in DOMAIN gathered_data["topics_per_institution"].v |->
                       SetOf(gathered_data["topics_per_institution"].v[k])])
    IN  [topics_per_country |-> topics_per_country,
         topics_per_city |-> topics_per_city,
         topics_per_institution |-> topics_per_institution,
         city_search_cache |-> gathered_data["city_search_cache"]]

\* a Lead of a Sample Builder: name, title, headline, institution and
\* source_url set, the other fields None
BuiltLead(name, institution, source_url) ==
    PyModel("Lead",
            [f \in {"name", "email", "title", "headline", "phone", "website",
                    "institution", "background_summary", "source_url"} |->
                CASE f = "name" -> PyStr(name)
                  [] f = "title" -> PyStr("Professor | Researcher | Scientist")
                  [] f = "headline" -> PyStr("Researcher in " \o institution)
                  [] f = "institution" -> PyStr(institution)
                  [] f = "source_url" -> PyStr(source_url)
                  [] OTHER -> PyNone])

\* a Sample as a builder constructs it
BuiltSample(what, where, city, leads) ==
    PyModel("Sample",
        [f \in {"query_params", "query_string", "query_type",
                "expected_results", "openalex_results"} |->
            CASE f = "query_params" ->
                    PyModel("ResearchParams",
                        [q \in {"who_query", "what_query", "where_query",
                                "context_query"} |->
                            CASE q = "who_query" ->
                                    PyStr("Professor | Researcher | Scientist")
                              [] q = "what_query" -> PyStr(what)
                              [] q = "where_query" -> PyStr(where)
                              [] q = "context_query" -> PyNone])
              [] f = "query_string" -> PyStr("Who: ... " \o what \o where)
              [] f = "query_type" -> QueryType("INSTITUTION_FOCUSED")
              [] f = "expected_results" ->
                    PyModel("LeadResults",
                            [l \in {"leads"} |-> PyList(leads)])
              [] f = "openalex_results" ->
                    PyModel("OpenAlexResults",
                        [o \in {"topic_id", "topic_display_name", "city",
                                "topic_keywords", "work_id"} |->
                            CASE o = "topic_id" -> PyStr("T1")
                              [] o = "topic_display_name" -> PyStr(what)
                              [] o = "city" -> city
                              [] o = "work_id" -> PyStr("W1")
                              [] OTHER -> PyNone])])

\* the Samples of a batch
SamplePool ==
    {BuiltSample("Nutrition", "United States", PyNone,
                 <<BuiltLead("Ann", "MIT", "A1")>>),
     BuiltSample("Nutrition", "United States", PyStr("Boston"),
                 <<BuiltLead("Ann", "MIT", "A1"),
                   BuiltLead("Bob", "Harvard", "A2")>>),
     BuiltSample("Oncology (Medicine)", "Canada", PyNone,
                 <<BuiltLead("Bob", "UofA", "A2")>>)}

\* the attributes of a generator after gathering: the three maps as dicts
\* of sets and the city cache (an institution without a city is cached as
\* None)
GatheredPool ==
    {[topics_per_country |-> PyDict(n), topics_per_city |-> PyDict(c),
      topics_per_institution |-> PyDict(i), city_search_cache |-> PyDict(h)] :
        n \in {<<>>, [k \in {"US"} |-> PySet({PyStr("T1")})],
               [k \in {"US", "CA"} |->
                   IF k = "US" THEN PySet({PyStr("T1"), PyStr("T2")})
                   ELSE PySet({PyStr("T1")})]},
        c \in {<<>>,
               [k \in {"Boston"} |->
                   PySet({PyTuple(<<PyStr("T1"), PyStr("US")>>)})],
               [k \in {"Boston", "Edmonton"} |->
                   IF k = "Boston"
                   THEN PySet({PyTuple(<<PyStr("T1"), PyStr("US")>>),
                               PyTuple(<<PyStr("T2"), PyStr("US")>>)})
                   ELSE PySet({PyTuple(<<PyStr("T1"), PyStr("CA")>>)})]},
        i \in {<<>>, [k \in {"I1", "I4"} |->
                   IF k = "I1" THEN PySet({PyStr("T1"), PyStr("T2")})
                   ELSE PySet({PyStr("T1")})]},
        h \in {<<>>, [k \in {"I1"} |-> PyStr("Boston")],
               [k \in {"I1", "I8"} |->
                   IF k = "I1" THEN PyStr("Boston") ELSE PyNone]}}

\* save_checkpoint(batch_num, results) writes the checkpoint file
RoundTripSaveCheckpoint ==
    /\ rt.pc = "input" /\ rt.kind = "checkpoint"
    /\ rt' = [rt EXCEPT !.pc = "saved",
                        !.file = save_checkpoint(rt.saved.batch_num,
                                                 rt.saved.results)]
    /\ UNCHANGED <<textVars, matcherVars, builderVars, generatorVars, gateVars,
                   groupVars, topicMapVars, parallelVars, runnerVars>>

\* load_checkpoint(batch_num) reads it
RoundTripLoadCheckpoint ==
    /\ rt.pc = "saved" /\ rt.kind = "checkpoint"
    /\ rt' = [rt EXCEPT !.pc = "loaded",
                        !.loaded = LoadCheckpointFile(rt.file)]
    /\ UNCHANGED <<textVars, matcherVars, builderVars, generatorVars, gateVars,
                   groupVars, topicMapVars, parallelVars, runnerVars>>

\* save_gathered_data writes gathered_data.json
RoundTripSaveGathered ==
    /\ rt.pc = "input" /\ rt.kind = "gathered"
    /\ \E file \in save_gathered_data(rt.saved) :
          rt' = [rt EXCEPT !.pc = "saved", !.file = file]
    /\ UNCHANGED <<textVars, matcherVars, builderVars, generatorVars, gateVars,
                   groupVars, topicMapVars, parallelVars, runnerVars>>

\* load_gathered_data reads it
RoundTripLoadGathered ==
    /\ rt.pc = "saved" /\ rt.kind = "gathered"
    /\ rt' = [rt EXCEPT !.pc = "loaded",
                        !.loaded = load_gathered_data(rt.file)]
    /\ UNCHANGED <<textVars, matcherVars, builderVars, generatorVars, gateVars,
                   groupVars, topicMapVars, parallelVars, runnerVars>>

InitRoundTrip ==
    /\ \/ \E batch_num \in 0..MaxSamples,
             results \in SeqUpTo(SamplePool, MaxSamples) :
             rt = [NoRoundTrip EXCEPT
                     !.pc = "input", !.kind = "checkpoint",
                     !.saved = [batch_num |-> batch_num,
                                results |-> PyList(results)]]
       \/ \E g \in GatheredPool :
             rt = [NoRoundTrip EXCEPT !.pc = "input", !.kind = "gathered",
                                      !.saved = g]
    /\ TextIdle /\ MatcherIdle /\ BuilderIdle /\ GeneratorIdle /\ GateIdle
    /\ GroupIdle /\ TopicMapsIdle /\ ParallelIdle /\ RunnerIdle

NextRoundTrip ==
    \/ RoundTripSaveCheckpoint
    \/ RoundTripLoadCheckpoint
    \/ RoundTripSaveGathered
    \/ RoundTripLoadGathered

-----------------------------------------------------------------------------
(* Scenario: the evaluation runner on one agent output.                    *)

\* `recall_matches, total_extra = value`: the two names bound, or the
\* TypeError of unpacking None
UnpackPair(value) ==
    IF value = "None"
    THEN [error |-> "TypeError", recall_matches |-> 0, total_extra |-> 0]
    ELSE [error |-> "none", recall_matches |-> value[1],
          total_extra |-> value[2]]

\* the call display_leads_comparison(result.leads,
\* eval_params.expected_results.leads): the comparison is printed and the
\* call returns
RunnerDisplays ==
    /\ run.pc = "called"
    /\ run' = [run EXCEPT !.pc = "displayed",
                          !.displayed = <<display_leads_comparison(run.leads, run.expected)>>]
    /\ UNCHANGED <<textVars, matcherVars, builderVars, generatorVars, gateVars,
                   groupVars, topicMapVars, parallelVars, roundTripVars>>

\* the returned value is unpacked into recall_matches, total_extra; then
\* the grader is run and the result dictionary returned
RunnerUnpacksAndReturns ==
    /\ run.pc = "displayed"
    /\ LET pair == UnpackPair(run.displayed[1].returned)
       IN  IF pair.error # "none"
           THEN run' = [run EXCEPT !.pc = "raised", !.error = pair.error]
           ELSE run' = [run EXCEPT
                          !.pc = "returned",
                          !.returned =
                              <<[eval_results |-> "eval_results",
                                 recall_matches |-> pair.recall_matches,
                                 total_extra_leads |-> pair.total_extra]>>]
    /\ UNCHANGED <<textVars, matcherVars, builderVars, generatorVars, gateVars,
                   groupVars, topicMapVars, parallelVars, roundTripVars>>

InitRunner ==
    /\ \E leads \in SeqUpTo(LeadPool, MaxAgentLeads),
          expected \in SeqUpTo(LeadPool, MaxAgentLeads) :
          run = [NoRunner EXCEPT !.pc = "called", !.leads = leads,
                                 !.expected = expected]
    /\ TextIdle /\ MatcherIdle /\ BuilderIdle /\ GeneratorIdle /\ GateIdle
    /\ GroupIdle /\ TopicMapsIdle /\ ParallelIdle /\ RoundTripIdle

NextRunner ==
    \/ RunnerDisplays
    \/ RunnerUnpacksAndReturns

-----------------------------------------------------------------------------
vars == <<textVars, matcherVars, builderVars, generatorVars, gateVars,
          groupVars, topicMapVars, parallelVars, roundTripVars, runnerVars>>

NextText == CallLeadsMatch
NextMatcher ==
    \/ CallFindLeadMatches
    \/ CallFindLeadMatchesAgain
    \/ DisplayLeadsComparison
NextBuilder == CallBuilder
NextGenerator ==
    \/ StartRun
    \/ BuildGroup
    \/ SaveGatheredData
    \/ PlanBatches
    \/ SaveCheckpoint
    \/ SaveProgress
    \/ WriteFinalOutput
    \/ Crash
    \/ CrashInWrite
    \/ DamageFile

SpecBuilder == InitBuilder /\ [][NextBuilder]_vars
SpecGenerator == InitGenerator /\ [][NextGenerator]_vars
SpecGate == InitGate /\ [][NextGate]_vars
SpecGroup == InitGroup /\ [][NextGroup]_vars
SpecTopicMaps == InitTopicMaps /\ [][NextTopicMaps]_vars
SpecParallel == InitParallel /\ [][NextParallel]_vars
SpecRoundTrip == InitRoundTrip /\ [][NextRoundTrip]_vars
SpecRunner == InitRunner /\ [][NextRunner]_vars

SpecText == InitText /\ [][NextText]_vars
SpecLeads == InitLeads /\ [][NextText]_vars
SpecMatcher == InitMatcher /\ [][NextMatcher]_vars

-----------------------------------------------------------------------------
(* Claims about the matcher.                                               *)

\* how many positions of the sequence q hold the value x
CountIn(q, x) == Cardinality({k \in 1..Len(q) : q[k] = x})

\* the actual (c = 1) or expected (c = 2) positions of the returned pairs
PairSide(c) == [k \in 1..Len(fm_out.pairs) |-> fm_out.pairs[k][c]]

\* the returned leads are the leads at the recorded positions
PositionsAgree ==
    /\ Len(fm_out.matches) = Len(fm_out.pairs)
    /\ \A k \in 1..Len(fm_out.pairs) :
          fm_out.matches[k] = <<actual_leads[fm_out.pairs[k][1]],
                                expected_leads[fm_out.pairs[k][2]]>>
    /\ Len(fm_out.missing) = Len(fm_out.missing_at)
    /\ \A k \in 1..Len(fm_out.missing_at) :
          fm_out.missing[k] = expected_leads[fm_out.missing_at[k]]
    /\ Len(fm_out.extra) = Len(fm_out.extra_at)
    /\ \A k \in 1..Len(fm_out.extra_at) :
          fm_out.extra[k] = actual_leads[fm_out.extra_at[k]]

\* C1: find_lead_matches returns a partition: every expected position is in
\* exactly one of {second component of a match pair, missing}, every actual
\* position in exactly one of {first component of a match pair, extra}, so
\* |matches| + |missing| = |expected| and |matches| + |extra| = |actual|.
C1_Partition ==
    fm_pc = "done" =>
        /\ PositionsAgree
        /\ \A j \in 1..Len(expected_leads) :
              CountIn(PairSide(2), j) + CountIn(fm_out.missing_at, j) = 1
        /\ \A i \in 1..Len(actual_leads) :
              CountIn(PairSide(1), i) + CountIn(fm_out.extra_at, i) = 1
        /\ Len(fm_out.matches) + Len(fm_out.missing) = Len(expected_leads)
        /\ Len(fm_out.matches) + Len(fm_out.extra) = Len(actual_leads)

\* a call that returned at least one pair, one missing and one extra lead
C1_Witness ==
    /\ fm_pc = "done"
    /\ Len(fm_out.matches) >= 1 /\ Len(fm_out.missing) >= 1
    /\ Len(fm_out.extra) >= 1

\* C2: matching is one-to-one: no actual position is in two match pairs; and
\* when several expected leads match the single actual lead X, the earliest
\* of them is paired with X and every other one is returned in missing.
C2_OneToOne ==
    fm_pc = "done" =>
        /\ \A k1, k2 \in 1..Len(fm_out.pairs) :
              fm_out.pairs[k1][1] = fm_out.pairs[k2][1] => k1 = k2
        /\ LET cand == {j \in 1..Len(expected_leads) :
                            Len(actual_leads) = 1
                            /\ leads_match(actual_leads[1], expected_leads[j])}
            IN  cand # {} =>
                  LET first == CHOOSE j \in cand : \A j2 \in cand : j <= j2
                  IN  /\ fm_out.pairs = << <<1, first>> >>
                      /\ \A j \in cand \ {first} : CountIn(fm_out.missing_at, j) = 1

\* expected = [A, A'] = [Diana, Carla] both matching the only actual lead
\* X = CarlaAlt, and not matching each other
C2_Witness ==
    /\ fm_pc = "done"
    /\ actual_leads = <<CarlaAlt>>
    /\ expected_leads = <<Diana, Carla>>
    /\ ~leads_match(Diana, Carla)
    /\ fm_out.matches = << <<CarlaAlt, Diana>> >>
    /\ fm_out.missing = <<Carla>>

\* the actual position i was taken by an expected lead before position j
TakenBefore(i, j) ==
    \E k \in 1..Len(fm_out.pairs) :
        fm_out.pairs[k][1] = i /\ fm_out.pairs[k][2] < j

\* q is in strictly increasing order
Increasing(q) == \A k1, k2 \in 1..Len(q) : k1 < k2 => q[k1] < q[k2]

\* C3: find_lead_matches is the greedy procedure: expected leads are taken in
\* list order, each is paired with the lowest-index actual lead that matches
\* it and was not taken by an earlier expected lead, and goes to missing when
\* there is none; actual=[Carla], expected=[Carla, Diana] gives
\* matches=[(actual[0], expected[0])], missing=[expected[1]], extra=[].
C3_Greedy ==
    fm_pc = "done" =>
        /\ Increasing(PairSide(2))
        /\ Increasing(fm_out.missing_at)
        /\ Increasing(fm_out.extra_at)
        /\ \A k \in 1..Len(fm_out.pairs) :
              LET i == fm_out.pairs[k][1]
                  j == fm_out.pairs[k][2]
              IN  /\ leads_match(actual_leads[i], expected_leads[j])
                  /\ ~TakenBefore(i, j)
                  /\ \A i2 \in 1..(i - 1) :
                        leads_match(actual_leads[i2], expected_leads[j])
                            => TakenBefore(i2, j)
        /\ \A k \in 1..Len(fm_out.missing_at) :
              \A i \in 1..Len(actual_leads) :
                  leads_match(actual_leads[i], expected_leads[fm_out.missing_at[k]])
                      => TakenBefore(i, fm_out.missing_at[k])
        /\ (actual_leads = <<Carla>> /\ expected_leads = <<Carla, Diana>>) =>
              /\ fm_out.matches = << <<actual_leads[1], expected_leads[1]>> >>
              /\ fm_out.missing = <<expected_leads[2]>>
              /\ fm_out.extra = <<>>

\* an expected lead passes over a matching actual lead that an earlier
\* expected lead took, and is paired with a later one
C3_Witness ==
    /\ fm_pc = "done"
    /\ \E k \in 1..Len(fm_out.pairs) :
          \E i2 \in 1..(fm_out.pairs[k][1] - 1) :
              /\ leads_match(actual_leads[i2], expected_leads[fm_out.pairs[k][2]])
              /\ TakenBefore(i2, fm_out.pairs[k][2])

\* normalized name / email of the two leads compared
NormName1 == normalize_text(text1)
NormName2 == normalize_text(text2)
NormEmail1 == normalize_text(email1)
NormEmail2 == normalize_text(email2)

\* C4: leads_match(a, b) is true exactly when the normalized names are both
\* non-empty and equal, or the normalized emails are both non-empty and
\* equal; equal names with different or absent emails still match.
C4_IdentityRule ==
    lm_pc = "done" =>
        (lm_result <=>
            \/ (NormName1 # <<>> /\ NormName2 # <<>> /\ NormName1 = NormName2)
            \/ (NormEmail1 # <<>> /\ NormEmail2 # <<>> /\ NormEmail1 = NormEmail2))

\* equal names with one email absent and the other present: a match
C4_Witness ==
    /\ lm_pc = "done" /\ lm_result
    /\ text1 # text2 /\ NormName1 = NormName2
    /\ email1 = None /\ NormEmail2 # <<>>

RECURSIVE Words(_)
\* the words of a string: its maximal runs of non-space characters, lower-cased
Words(s) ==
    LET t == LStrip(s)
    IN  IF t = <<>> THEN <<>>
        ELSE LET n == CHOOSE n \in 1..Len(t) :
                        /\ \A k \in 1..n : t[k] # " "
                        /\ (n = Len(t) \/ t[n + 1] = " ")
             IN  <<Lower(SubSeq(t, 1, n))>> \o Words(SubSeq(t, n + 1, Len(t)))

\* C5: two names that differ only in letter case, leading/trailing spaces and
\* the number of spaces between words are considered the same: the leads match.
C5_CollapsesSpaceRuns ==
    (lm_pc = "done" /\ Words(text1) # <<>> /\ Words(text1) = Words(text2))
        => lm_result

-----------------------------------------------------------------------------
(* Claims about the Sample Builders.                                       *)

\* the institution of a visit is in the locality the builder was called for
Qualifies(kind, target, v) ==
    CASE kind = "institution" -> v.inst.id = target.institution_id
      [] kind = "country" -> v.inst.country_code = target.country_code
      [] kind = "city" -> /\ v.inst.country_code = target.country_code
                          /\ v.inst.geo_city = target.city

QualifyingVisits ==
    {k \in 1..Len(Visits(query_results)) :
        Qualifies(b_kind, b_target, Visits(query_results)[k])}

\* C7: a Sample Builder (institution, city or country) never returns a Sample
\* whose expected leads are empty or whose topic name or openalex_results is
\* unset; when no authorship qualifies it raises instead of returning.
C7_NoEmptySample ==
    b_pc = "done" =>
        /\ b_out.kind = "sample" =>
              /\ b_out.sample.expected_results.leads # <<>>
              /\ b_out.sample.query_params.what_query # <<>>
              /\ b_out.sample.openalex_results # NoObject
        /\ QualifyingVisits = {} => b_out.kind = "raise"

\* works with authorships were returned, none of them qualifies, and the
\* builder raised its ValueError
C7_Witness ==
    /\ b_pc = "done"
    /\ Visits(query_results) # <<>>
    /\ QualifyingVisits = {}
    /\ b_out.kind = "raise" /\ b_out.error = "ValueError"

-----------------------------------------------------------------------------
(* Checkpoints and resumption *)

\* the samples a run that stopped left in the checkpoint files its progress
\* record lists
RECURSIVE RecordedSamples(_, _)
RecordedSamples(files, completed_batches) ==
    IF completed_batches = <<>> THEN <<>>
    ELSE LET n == Head(completed_batches)
             here == IF n \in DOMAIN files /\ files[n].status = "ok"
                     THEN files[n].content[1].results ELSE <<>>
         IN  here \o RecordedSamples(files, Tail(completed_batches))

\* C6: a restart that starts from a progress record listing completed
\* batches and runs to completion returns every recorded sample once and one
\* sample for every other combination: no sample twice, none lost. Violated.
C6_ResumeWithoutDuplication ==
    (/\ gen.pc = "done" /\ hist.damage = 0
     /\ hist.start_progress.status = "ok"
     /\ hist.loaded_completed # <<>>)
    => /\ \A k \in 1..Len(hist.loaded) : CountIn(gen.returned, hist.loaded[k]) = 1
       /\ \A c \in AllCombinations(gen.maps) \ source.failing :
              CountIn(gen.returned, c) = 1

\* C8: when a builder task of a parallel group raises, the run does not
\* stop on it and the samples of the other members of the group are kept.
\* Violated.
C8_BuilderFailureIsolated ==
    hist.raised # {} => gen.pc # "failed" /\ hist.dropped = {}

\* C9: over the life of the checkpoint directory, with no file touched from
\* outside, the completed list of the progress record is strictly increasing
\* and a checkpoint is never written under an ordinal the record lists.
\* Violated.
C9_OrdinalsNeverReassigned ==
    (hist.damage = 0 /\ progress_file.status = "ok")
    => LET completed_batches == progress_file.content[1].completed_batches
       IN  /\ Increasing(completed_batches)
           /\ gen.pc = "progress" =>
                \A k \in 1..Len(completed_batches) :
                    completed_batches[k] # gen.batch_num

\* C10: whatever the progress file and the checkpoint files are when a run
\* starts, loading them raises nothing: a missing or malformed progress file
\* gives no completed batches and no results, a missing or malformed
\* checkpoint of a listed batch gives no samples, and a malformed file is
\* logged.
C10_LoadingNeverAborts ==
    hist.runs > 0 =>
        LET pf == hist.start_progress
            cf == hist.start_checkpoints
        IN  /\ gen.error \notin {"JSONDecodeError", "FileNotFoundError"}
            /\ pf.status # "ok" =>
                    hist.loaded_completed = <<>> /\ hist.loaded = <<>>
            /\ pf.status = "ok" =>
                    /\ hist.loaded_completed = pf.content[1].completed_batches
                    /\ hist.loaded = RecordedSamples(cf, hist.loaded_completed)
            /\ hist.logged <=>
                    \/ pf.status = "malformed"
                    \/ /\ pf.status = "ok"
                       /\ \E k \in 1..Len(hist.loaded_completed) :
                            CheckpointFile(cf, hist.loaded_completed[k]).status
                                = "malformed"

\* a run started on a progress file cut short by a crash, and went on to
\* build and checkpoint from the empty state
C10_Witness ==
    /\ hist.start_progress.status = "malformed"
    /\ hist.logged
    /\ gen.pc = "progress" /\ gen.completed_batches = <<>>

\* C11: a run of generate_queries that returns has written the final output
\* file, and the file holds the samples the run returns; also a run started
\* after every batch was already checkpointed. Violated.
C11_FinalOutputWritten ==
    (gen.pc = "done" /\ hist.damage = 0)
    => /\ final_output.status = "ok"
       /\ final_output.content[1] = gen.returned

-----------------------------------------------------------------------------
(* The concurrency gate *)

\* the tasks holding a permit
Holders == {t \in DOMAIN calls : calls[t].pc \in {"call", "sleep", "exit"}}

\* C13: a task leaves rate_limited_api_call, giving its permit back, only
\* after its delay has elapsed; it then returns the value api_call_func
\* returned, or raises the exception api_call_func raised. The free permits
\* are the width less the tasks inside the gate.
C13_DelayBeforeRelease ==
    /\ API_SEMAPHORE = gate_width - Cardinality(Holders)
    /\ \A t \in DOMAIN calls :
          /\ calls[t].pc \in {"call", "sleep"} => ~calls[t].slept
          /\ calls[t].pc = "left" =>
                /\ calls[t].slept
                /\ calls[t].api.kind = "value" =>
                        calls[t].out = [kind |-> "return", v |-> calls[t].api.v]
                /\ calls[t].api.kind = "error" =>
                        calls[t].out = [kind |-> "raise", v |-> calls[t].api.v]

\* a failing call has left the gate after its delay while another task is
\* still waiting for a permit
C13_Witness ==
    \E t, u \in DOMAIN calls :
        /\ calls[t].pc = "left" /\ calls[t].api.kind = "error"
        /\ calls[t].slept /\ calls[t].out.kind = "raise"
        /\ calls[u].pc = "start" /\ API_SEMAPHORE = 0

\* C12: every call to the bibliographic source made during a run of
\* generate_queries (the pages and institution searches of gathering, the
\* work queries and city lookups of the builders) is made while a permit of
\* API_SEMAPHORE is held. Violated.
C12_CallsHoldPermit ==
    \A c \in hist.api_calls : c.permit

-----------------------------------------------------------------------------
(* The matcher on disjoint and on identical lists, its purity, the recall *)

\* no actual lead and expected lead of the call satisfy the identity rule
NoOverlap ==
    \A i \in 1..Len(fm_given[1]), j \in 1..Len(fm_given[2]) :
        ~leads_match(fm_given[1][i], fm_given[2][j])

\* C14: when no actual lead matches any expected lead (either list may be
\* empty), find_lead_matches returns no match, the expected list as missing
\* and the actual list as extra, both in their order.
C14_DisjointLists ==
    (fm_pc = "done" /\ NoOverlap)
    => /\ fm_out.matches = <<>>
       /\ fm_out.missing = fm_given[2]
       /\ fm_out.extra = fm_given[1]

\* two different leads on each side, none matching a lead of the other side
C14_Witness ==
    /\ fm_pc = "done" /\ NoOverlap
    /\ fm_given[1] = <<Diana, Blank>>
    /\ fm_given[2] = <<Blank, Carla>>
    /\ fm_out.missing = <<Blank, Carla>>

\* every lead of the list is paired with a lead of the other list
CoversAll ==
    /\ Len(fm_out.matches) = Len(fm_given[2])
    /\ \A k \in 1..Len(fm_given[2]) :
          \E m \in 1..Len(fm_out.pairs) : fm_out.pairs[m][2] = k
    /\ \A k \in 1..Len(fm_given[1]) :
          \E m \in 1..Len(fm_out.pairs) : fm_out.pairs[m][1] = k
    /\ fm_out.missing = <<>> /\ fm_out.extra = <<>>

\* C15 as stated: for a list whose leads have a non-empty name, matching the
\* list against itself pairs every lead and leaves nothing missing or extra.
\* Violated by a name of spaces only.
C15_SelfMatch_Stated ==
    (/\ fm_pc = "done" /\ fm_given[1] = fm_given[2]
     /\ \A k \in 1..Len(fm_given[1]) : fm_given[1][k].name # <<>>)
    => CoversAll

\* C15 with the names non-empty after normalization (not made of spaces
\* only): matching the list against itself pairs every lead and leaves
\* nothing missing or extra.
C15_SelfMatch ==
    (/\ fm_pc = "done" /\ fm_given[1] = fm_given[2]
     /\ \A k \in 1..Len(fm_given[1]) :
           normalize_text(fm_given[1][k].name) # <<>>)
    => CoversAll

\* a list of three leads, the middle one matching both others
C15_Witness ==
    /\ fm_pc = "done"
    /\ fm_given[1] = <<Carla, CarlaAlt, Diana>>
    /\ fm_given[2] = <<Carla, CarlaAlt, Diana>>
    /\ Len(fm_out.matches) = 3

C17_Recall ==
    fm_pc = "displayed" =>
        /\ summary.error = "none"
        /\ summary.total_expected = Len(expected_leads)
        /\ summary.total_matches + summary.total_missing = Len(expected_leads)
        /\ Len(expected_leads) = 0 => summary.recall = NoObject
        /\ Len(expected_leads) > 0 =>
              /\ summary.recall # NoObject
              /\ LET tenths == summary.recall[1]
                     off == tenths * summary.total_expected
                               - 1000 * summary.total_matches
                 IN  /\ 2 * off <= summary.total_expected
                     /\ 2 * off >= 0 - summary.total_expected
                     /\ (summary.total_matches = 1 /\ summary.total_expected = 2)
                            => tenths = 500

\* the example of one match out of two expected leads: 50.0%
C17_Witness ==
    /\ fm_pc = "displayed"
    /\ actual_leads = <<Carla>> /\ expected_leads = <<Carla, Diana>>
    /\ summary.total_matches = 1 /\ summary.recall = <<500>>

-----------------------------------------------------------------------------
(* The rendered query and the leads of a Sample *)

\* C18: the 'where' line of the query string is "<institution name>,
\* <where_query>" in the Sample of the institution builder and only
\* "<where_query>" in the Samples of the city and country builders; the who,
\* what and context lines are the same in both renderings.
C18_WhereLine ==
    (b_pc = "done" /\ b_out.kind = "sample") =>
        LET q == b_out.sample.query_string
            p == b_out.sample.query_params
            visits == Visits(query_results)
            plain == build_final_query(p, FALSE, None)
        IN  /\ b_kind = "institution" =>
                  \A k \in QualifyingVisits :
                      q.where = WhereLabelInstitution
                                  \o InstitutionNameWithAlternatives(visits[k].inst)
                                  \o <<", ">> \o p.where_query
            /\ b_kind # "institution" => q.where = WhereLabel \o p.where_query
            /\ plain.where = WhereLabel \o p.where_query
            /\ q.who = plain.who /\ q.what = plain.what
            /\ q.context = plain.context
            /\ q.who = <<"Who: ">> \o p.who_query

\* the institution builder returned a Sample for an institution with an
\* alternative name
C18_Witness ==
    /\ b_pc = "done" /\ b_out.kind = "sample" /\ b_kind = "institution"
    /\ b_out.sample.query_string.where =
          WhereLabelInstitution \o <<"Harvard", " (also known as ", "HU", ")">>
              \o <<", ", "United States">>

\* the visits that qualify for a researcher id, in work order
QualifyingFor(id) ==
    {k \in QualifyingVisits : Visits(query_results)[k].authorship.author.id = id}

\* C19: in a Sample a builder returns no two leads share a source_url, each
\* researcher id of a qualifying authorship has exactly one lead, and the
\* lead carries the institution of the researcher's first qualifying
\* occurrence in work order.
C19_LeadsDeduplicated ==
    (b_pc = "done" /\ b_out.kind = "sample") =>
        LET leads == b_out.sample.expected_results.leads
            visits == Visits(query_results)
        IN  /\ \A m, n \in 1..Len(leads) :
                  leads[m].source_url = leads[n].source_url => m = n
            /\ {leads[m].source_url : m \in 1..Len(leads)}
                  = {visits[k].authorship.author.id : k \in QualifyingVisits}
            /\ \A m \in 1..Len(leads) :
                  LET first == CHOOSE k \in QualifyingFor(leads[m].source_url) :
                                  \A k2 \in QualifyingFor(leads[m].source_url) :
                                      k <= k2
                  IN  /\ leads[m].institution = visits[first].inst.display_name
                      /\ leads[m].name =
                            visits[first].authorship.author.display_name

\* a researcher qualifies twice, at two institutions, and has one lead, at
\* the first
C19_Witness ==
    /\ b_pc = "done" /\ b_out.kind = "sample" /\ b_kind = "country"
    /\ \E k1, k2 \in QualifyingFor("A1") :
          /\ k1 < k2
          /\ Visits(query_results)[k1].inst.id
                # Visits(query_results)[k2].inst.id
    /\ Len(b_out.sample.expected_results.leads) = 1

-----------------------------------------------------------------------------
(* The gathered-data snapshot *)

\* C20: once a run has gathered the topic maps, an interruption at any
\* later point leaves the gathered-data snapshot for the next run, which
\* does not page the bibliographic source again: over the life of the
\* directory the maps are gathered by one run only. Violated.
C20_GatheredOnce ==
    hist.damage = 0 => hist.gathers <= 1

-----------------------------------------------------------------------------
(* Progress record and checkpoint files *)

\* the ordinals a progress file lists as completed
ListedOrdinals(file) ==
    IF file.status # "ok" THEN {}
    ELSE {file.content[1].completed_batches[k] :
            k \in 1..Len(file.content[1].completed_batches)}

\* C21: with no file touched from outside, whatever the crash points, every
\* ordinal the progress record lists has a checkpoint file that was written
\* whole before the record listed it. Violated: a restarted run computes
\* batch_num from len(completed_batches), reaches an ordinal the record
\* already lists and opens that file for writing again.
C21_ListedIsPersisted ==
    hist.damage = 0 =>
        \A n \in ListedOrdinals(progress_file) :
            CheckpointFile(checkpoint_files, n).status = "ok"

RECURSIVE StoredSamples(_, _)
\* the number of samples held by the checkpoint files of a set of ordinals
StoredSamples(files, ordinals) ==
    IF ordinals = {} THEN 0
    ELSE LET n == CHOOSE x \in ordinals : TRUE
             file == CheckpointFile(files, n)
         IN  (IF file.status = "ok" THEN Len(file.content[1].results) ELSE 0)
             + StoredSamples(files, ordinals \ {n})

\* save_progress has just returned: the batch loop is at the top of its
\* next pass, or past its last pass
ProgressJustSaved ==
    gen.pc \in {"checkpoint", "final"} /\ gen.batch_idx > 0

\* C22: with no file touched from outside, right after every save of the
\* progress record its total_results is the number of samples stored in the
\* checkpoint files of the ordinals it lists. Violated: after a restart a
\* listed checkpoint file is overwritten by a later batch, and total_results
\* goes on counting the samples the file held before.
C22_TotalResultsStored ==
    (hist.damage = 0 /\ ProgressJustSaved) =>
        progress_file.content[1].total_results
            = StoredSamples(checkpoint_files, ListedOrdinals(progress_file))

-----------------------------------------------------------------------------
(* Restart *)

\* the combination list of a run, in the order of all_searches
CombinationList(g) ==
    g.all_combinations["institution"] \o g.all_combinations["city"]
        \o g.all_combinations["country"]

\* the combinations whose builder task was run and returned a Sample
BuiltCombinations(g) ==
    UNION {{SearchList(g, kind)[k] : k \in 1..Len(SearchList(g, kind))} :
            kind \in BuilderKinds}

\* C23: a run that recovered k samples runs the Sample Builder for the
\* combinations at positions k and beyond only. Violated: the search lists
\* are rebuilt in full before remaining_searches is sliced from them.
C23_OnlyRemainingBuilt ==
    hist.damage = 0 =>
        \A p \in 1..Len(CombinationList(gen)) :
            CombinationList(gen)[p] \in BuiltCombinations(gen)
                => p > Len(hist.loaded)

\* C24: a run started on a gathered-data file that exists but cannot be
\* parsed reports it, gathers afresh and goes on. Violated: the run takes
\* the loading branch because the file exists, load_gathered_data returns
\* False unheeded, and building the searches reads a map never assigned.
C24_MalformedGatheredFallsBack ==
    (gathered_data_file.status = "malformed" /\ gen.pc # "stopped") =>
        /\ gen.error # "AttributeError"
        /\ gen.path = "gather"

-----------------------------------------------------------------------------
(* Parallel groups *)

\* the elements of a sequence
Range(q) == {q[k] : k \in 1..Len(q)}

\* the tasks of the group that have run, and their place in completion order
Completed == Range(grp.completed)
PlaceOf(t) == CHOOSE k \in 1..Len(grp.completed) : grp.completed[k] = t

\* the Samples of the group in the order the combinations were submitted,
\* and in the order the tasks completed
SubmissionOrder == [k \in 1..Len(grp.tasks) |-> grp.tasks[k].out.sample]
CompletionOrder ==
    [k \in 1..Len(grp.completed) |-> grp.tasks[grp.completed[k]].out.sample]

\* the group returned at least two Samples that are not all the same
DistinctSamples ==
    /\ grp.pc = "extended"
    /\ \E t1, t2 \in 1..Len(grp.tasks) :
          grp.tasks[t1].out.sample # grp.tasks[t2].out.sample

\* C25 as stated: the Samples of a parallel group stand in the search list
\* in task-completion order, which is not the submission order. Violated.
C25_CompletionOrder_Stated ==
    DistinctSamples =>
        /\ grp.city_based_searches = CompletionOrder
        /\ grp.city_based_searches # SubmissionOrder

\* C25, amended: the Samples of a parallel group stand in the search list
\* in the order in which the combinations were submitted, which is also the
\* order in which the tasks completed.
C25_SubmissionOrder ==
    /\ \A k \in 1..Len(grp.completed) : grp.completed[k] = k
    /\ grp.pc = "extended" => grp.city_based_searches = SubmissionOrder

\* two tasks returned different Samples, and the list holds the Sample of
\* the first submitted first
C25_Witness ==
    /\ DistinctSamples /\ Len(grp.tasks) = 2
    /\ grp.city_based_searches[1] = grp.tasks[1].out.sample
    /\ grp.city_based_searches[1] # grp.city_based_searches[2]

-----------------------------------------------------------------------------
(* The city-resolution cache *)

\* the institutions for which task t missed the cache and made the remote
\* lookup, and those it found in the cache
LookedUp(t) == Range(grp.tasks[t].out.lookups)
FoundCached(t) == Range(grp.tasks[t].out.hits)

\* the institutions whose city task t resolved or tried to
Resolved(t) == LookedUp(t) \cup FoundCached(t)

\* self.city_search_cache when task t was started
CacheBefore(t) ==
    IF PlaceOf(t) = 1 THEN grp.cache_at_start
    ELSE grp.tasks[grp.completed[PlaceOf(t) - 1]].out.city_search_cache

\* an entry of the cache is never removed or changed
CacheEntriesKept ==
    \A id \in DOMAIN grp.city_search_cache :
        /\ id \in DOMAIN grp'.city_search_cache
        /\ grp'.city_search_cache[id] = grp.city_search_cache[id]

-----------------------------------------------------------------------------
(* Permits of the gate *)

\* C27: whatever the number of callers, the wrapped calls inside the gate
\* are never more than the width the gate was created with (10 in the
\* source; the widths drawn here are smaller than the number of callers),
\* the free permits stay between 0 and the width, and once every caller
\* has left, by return or by exception, all the permits are free again.
C27_PermitsConserved ==
    /\ Cardinality(Holders) <= gate_width
    /\ API_SEMAPHORE \in 0..gate_width
    /\ (\A t \in DOMAIN calls : calls[t].pc = "left")
            => API_SEMAPHORE = gate_width

\* more callers than permits; all have left, one of them by an exception,
\* and every permit is free
C27_Witness ==
    /\ gate_width < Cardinality(DOMAIN calls)
    /\ \A t \in DOMAIN calls : calls[t].pc = "left"
    /\ \E t \in DOMAIN calls : calls[t].out.kind = "raise"
    /\ \E t \in DOMAIN calls : calls[t].out.kind = "return"
    /\ API_SEMAPHORE = gate_width

-----------------------------------------------------------------------------
(* City-level Samples *)

\* C30: every expected lead of a city-level Sample comes from an authorship
\* institution of the target country whose resolved city, as the cache holds
\* it, is the target city; a task looks an institution up only when the
\* cache does not hold it, at most once, and an institution the cache holds
\* is resolved from the cache, whose entry stays as it was.
C30_CityLeadsResolved ==
    \A t \in Completed :
        LET task == grp.tasks[t]
            out == task.out
            visits == Visits(task.query_results)
        IN  /\ out.kind = "sample" =>
                  \A m \in 1..Len(out.sample.expected_results.leads) :
                      LET lead == out.sample.expected_results.leads[m]
                      IN  \E k \in 1..Len(visits) :
                              /\ visits[k].authorship.author.id = lead.source_url
                              /\ visits[k].inst.display_name = lead.institution
                              /\ visits[k].inst.country_code
                                    = task.target.country_code
                              /\ visits[k].inst.id \in DOMAIN out.city_search_cache
                              /\ out.city_search_cache[visits[k].inst.id]
                                    = task.target.city
            /\ \A id \in LookedUp(t) : id \notin DOMAIN CacheBefore(t)
            /\ \A a, b \in 1..Len(out.lookups) :
                  out.lookups[a] = out.lookups[b] => a = b
            /\ \A id \in FoundCached(t) :
                  id \in DOMAIN CacheBefore(t) \/ id \in LookedUp(t)
            /\ \A id \in DOMAIN CacheBefore(t) :
                  /\ id \in DOMAIN out.city_search_cache
                  /\ out.city_search_cache[id] = CacheBefore(t)[id]

\* a task for Boston met UCLA, absent from the cache, looked it up and
\* skipped it, then met Harvard, found it in the cache, and returned a Sample
\* with the one lead at Harvard
C30_Witness ==
    /\ 1 \in Completed
    /\ grp.tasks[1].target.city = <<"Boston">>
    /\ grp.tasks[1].out.kind = "sample"
    /\ grp.tasks[1].out.lookups = <<"I3">>
    /\ grp.tasks[1].out.hits = <<"I2">>
    /\ Len(grp.tasks[1].out.sample.expected_results.leads) = 1
    /\ grp.tasks[1].out.sample.expected_results.leads[1].institution
          = <<"Harvard">>

-----------------------------------------------------------------------------
(* Data gathering: the three topic maps and their targets.                 *)

\* the sum of the three ratios of the configuration, in tenths
RatiosSum(g) == g.ratios.country + g.ratios.city + g.ratios.institution

\* the visits of the records that the inner loops of _get_topic_maps reach
\* and whose institution is of a target country
GatheringVisits(records) ==
    {v \in Range(Visits(SelectSeq(records,
                                  LAMBDA r : r.primary_topic # NoObject))) :
        v.inst.country_code \in DOMAIN COUNTRIES}

\* the combinations of each kind that the records hold
CountryCombinations(records) ==
    {<<v.inst.country_code, v.record.primary_topic[1].id>> :
        v \in GatheringVisits(records)}
InstitutionCombinations(records) ==
    {<<v.inst.id, v.record.primary_topic[1].id>> :
        v \in GatheringVisits(records)}
CityCombinations(records) ==
    {<<r.geo_city, <<v.record.primary_topic[1].id, v.inst.country_code>> >> :
        <<v, r>> \in
            {<<w, q>> \in GatheringVisits(records)
                           \X {MIT, Harvard, HarvardExtension, UCLA, UofA,
                               NoCity, Foreign} :
                /\ InstitutionsSearch(w.inst).error = "none"
                /\ q \in Range(InstitutionsSearch(w.inst).results)
                /\ q.id = w.inst.id
                /\ Truthy(q.geo_city)}}

\* the records the loop has finished with
RecordsDone(g) == SubSeq(g.records, 1, g.pos - 1)

\* a source with enough qualifying records: of each kind it holds at least
\* target_queries combinations
EnoughRecords(g) ==
    /\ Cardinality(CountryCombinations(g.records)) >= g.target_queries
    /\ Cardinality(InstitutionCombinations(g.records)) >= g.target_queries
    /\ Cardinality(CityCombinations(g.records)) >= g.target_queries

\* C28: gathering returns from its loop only with the sum of the three
\* counts at target_queries or more, and when the ratios sum to 1 and the
\* source holds enough qualifying records, gathering ends with that sum
\* reached
C28_SumReached ==
    LET counts == get_current_combination_counts(tm)
    IN  /\ tm.pc = "returned" => counts.total >= tm.target_queries
        /\ ( /\ tm.pc \in {"returned", "exhausted"}
             /\ RatiosSum(tm) = 10
             /\ EnoughRecords(tm) )
           => counts.total >= tm.target_queries

\* C29 as stated: each map holds at most its target of combinations, and
\* the total is at most target_queries, in every state of the gathering
C29_TotalWithinTarget_Stated ==
    LET counts == get_current_combination_counts(tm)
    IN  tm.pc # "idle" =>
            /\ counts.country <= tm.targets.country
            /\ counts.city <= tm.targets.city
            /\ counts.institution <= tm.targets.institution
            /\ counts.total <= tm.target_queries

\* C29: each map holds at most its target of combinations in every state of
\* the gathering; the total is at most target_queries when the three ratios
\* sum to at most 1
C29_MapsWithinTargets ==
    LET counts == get_current_combination_counts(tm)
    IN  tm.pc # "idle" =>
            /\ counts.country <= tm.targets.country
            /\ counts.city <= tm.targets.city
            /\ counts.institution <= tm.targets.institution
            /\ RatiosSum(tm) <= 10 => counts.total <= tm.target_queries

\* the loop is over with ratios summing to 1, the country and the city map
\* each at its target of one, while the records it went through hold more
\* combinations of both kinds
C29_Witness ==
    LET counts == get_current_combination_counts(tm)
    IN  /\ tm.pc \in {"returned", "exhausted"}
        /\ RatiosSum(tm) = 10
        /\ tm.targets.country > 0 /\ counts.country = tm.targets.country
        /\ tm.targets.city > 0 /\ counts.city = tm.targets.city
        /\ Cardinality(CountryCombinations(RecordsDone(tm)))
              > tm.targets.country
        /\ Cardinality(CityCombinations(RecordsDone(tm))) > tm.targets.city

-----------------------------------------------------------------------------
(* The Batch Generator after its loop.                                     *)

\* C31: when generate_queries has written the final output and returned, no
\* batch checkpoint file and no progress file is left in checkpoint_dir,
\* and the gathered-data file is still there
C31_CheckpointsCleaned ==
    (gen.pc = "done" /\ Exists(final_output)) =>
        /\ \A n \in DOMAIN checkpoint_files : ~Exists(checkpoint_files[n])
        /\ ~Exists(progress_file)
        /\ Exists(gathered_data_file)

\* C34: in a run that loaded c completed batches, the ordinals the loop has
\* appended so far are c, c+1, ... in this order: the ordinal at place i of
\* completed_batches, for i past the loaded ones, is i - 1
C34_ConsecutiveOrdinals ==
    gen.pc \in {"checkpoint", "progress", "final", "done"} =>
        \A i \in (Len(hist.loaded_completed) + 1)..Len(gen.completed_batches) :
            /\ gen.completed_batches[i] = i - 1
            /\ Exists(CheckpointFile(checkpoint_files, i - 1))

-----------------------------------------------------------------------------
(* Groups of parallel builder tasks.                                       *)

\* C32: at most parallel_batch_size builder tasks are in flight; a task of
\* a later group exists only when no task of an earlier group is in flight;
\* a recorded result belongs to a group none of whose tasks is in flight
C32_GroupsOfParallelBatchSize ==
    par.pc # "idle" =>
        /\ Cardinality(InFlight(par)) <= par.batch_size
        /\ \A t, u \in 1..Len(par.tasks) :
              par.tasks[u].batch_start < par.tasks[t].batch_start
                  => u \notin InFlight(par)
        /\ \A k \in 1..Len(par.country_based_searches) :
              \E t \in 1..Len(par.tasks) :
                 /\ par.tasks[t].combination = par.country_based_searches[k]
                 /\ par.tasks[t].status = "returned"
                 /\ TasksOfGroup(par, par.tasks[t].batch_start)
                        \cap InFlight(par) = {}

\* the second group of a loop with parallel_batch_size 2 has both its tasks
\* in flight, and the two results of the first group are recorded
C32_Witness ==
    /\ par.pc = "gather"
    /\ par.batch_size = 2 /\ par.batch_start = 2
    /\ Cardinality(InFlight(par)) = 2
    /\ par.country_based_searches = <<1, 2>>

-----------------------------------------------------------------------------
(* The matcher's result cannot be extended.                                *)

\* C33: no lead of the returned missing list satisfies the identity rule
\* with a lead of the returned extra list
C33_Maximal ==
    fm_pc = "done" =>
        \A m \in 1..Len(fm_out.missing), x \in 1..Len(fm_out.extra) :
            ~leads_match(fm_out.extra[x], fm_out.missing[m])

\* an expected lead is missing although an actual lead matches it (an
\* earlier expected lead took that one), and another actual lead is extra
C33_Witness ==
    /\ fm_pc = "done"
    /\ fm_out.extra # <<>>
    /\ \E m \in 1..Len(fm_out.missing), i \in 1..Len(actual_leads) :
          leads_match(actual_leads[i], fm_out.missing[m])

-----------------------------------------------------------------------------
(* The Sample a builder returns.                                           *)

\* C35: in a Sample a builder returns, what_query is the topic name of the
\* provenance record
C35_QueryTopicIsProvenanceTopic ==
    (b_pc = "done" /\ b_out.kind = "sample") =>
        b_out.sample.query_params.what_query
            = b_out.sample.openalex_results[1].topic_display_name

\* C36: the query_type of a returned Sample names the kind of locality the
\* builder was called for: institution_focused from the institution
\* builder, location_based from the city builder, and not
\* institution_focused from the country builder
C36_QueryTypeOfKind ==
    (b_pc = "done" /\ b_out.kind = "sample") =>
        /\ b_kind = "institution"
              => b_out.sample.query_type = "institution_focused"
        /\ b_kind = "city" => b_out.sample.query_type = "location_based"
        /\ b_kind = "country"
              => b_out.sample.query_type # "institution_focused"

-----------------------------------------------------------------------------
(* Checkpoint persistence round-trips.                                     *)

RECURSIVE PyEqual(_, _)
\* Python's == on two values: the same type and equal payloads, element by
\* element
PyEqual(a, b) ==
    /\ a.t = b.t
    /\ CASE a.t \in {"list", "tuple"} ->
               /\ Len(a.v) = Len(b.v)
               /\ \A k \in 1..Len(a.v) : PyEqual(a.v[k], b.v[k])
         [] a.t = "set" ->
               /\ \A x \in a.v : \E y \in b.v : PyEqual(x, y)
               /\ \A y \in b.v : \E x \in a.v : PyEqual(x, y)
         [] a.t \in {"dict"} \cup ModelClasses ->
               /\ DOMAIN a.v = DOMAIN b.v
               /\ \A k \in DOMAIN a.v : PyEqual(a.v[k], b.v[k])
         [] OTHER -> a.v = b.v

\* C37: load_checkpoint after save_checkpoint returns the list of Samples
\* that was saved, and load_gathered_data after save_gathered_data restores
\* the three topic maps and the city cache that were saved
C37_RoundTrip ==
    rt.pc = "loaded" =>
        /\ rt.kind = "checkpoint" => PyEqual(rt.loaded, rt.saved.results)
        /\ rt.kind = "gathered" =>
              \A a \in {"topics_per_country", "topics_per_city",
                        "topics_per_institution", "city_search_cache"} :
                  PyEqual(rt.loaded[a], rt.saved[a])

\* a batch of two Samples, one with a city and two leads, has been saved
\* and loaded; or maps with two cities, a city set of two pairs and a cache
\* holding None have been saved and loaded
C37_Witness ==
    /\ rt.pc = "loaded"
    /\ \/ /\ rt.kind = "checkpoint"
          /\ Len(rt.saved.results.v) = 2
          /\ \E k \in 1..2 :
                Len(rt.saved.results.v[k].v["expected_results"].v["leads"].v) = 2
       \/ /\ rt.kind = "gathered"
          /\ DOMAIN rt.saved.topics_per_city.v = {"Boston", "Edmonton"}
          /\ DOMAIN rt.saved.city_search_cache.v = {"I1", "I8"}

-----------------------------------------------------------------------------
(* The evaluation runner's result dictionary.                              *)

\* C38: once the comparison is displayed the runner goes on to return, and
\* its result dictionary holds the number of matches under recall_matches
\* and the number of extra leads under total_extra_leads
C38_RunnerReturnsCounts ==
    run.pc \in {"returned", "raised"} =>
        /\ run.pc = "returned"
        /\ run.returned[1].recall_matches = run.displayed[1].total_matches
        /\ run.returned[1].total_extra_leads = run.displayed[1].total_extra

====
